---- MODULE Spec2Model ----
(***************************************************************************)
(* A model of the feature-extraction / risk-prediction / engagement-scoring *)
(* pipeline of the employee retention predictor:                            *)
(*   backend/services/feature_extractor.py   FeatureExtractor               *)
(*   backend/services/ml_predictor.py        MLPredictor                    *)
(*   backend/services/ai_engagement_scorer.py AIEngagementScorer            *)
(*                                                                          *)
(* Numbers.  Every number a record carries is a decimal with two places and *)
(* is held as the integer number of hundredths (35 % is 3500, a sentiment   *)
(* of -0.3 is -30).  Computed quantities are exact rationals [n, d] in      *)
(* lowest terms.  Risk scores are held in millionths together with the sign *)
(* of the IEEE-754 rounding residue the code's float additions leave.       *)
(***************************************************************************)
EXTENDS Integers, Sequences, FiniteSets, TLC

VARIABLES model,          \* MLPredictor.model: "none" or "loaded"
          scaler,         \* MLPredictor.scaler: "default" or "fitted"
          threshold,      \* MLPredictor.threshold
          use_openai,     \* AIEngagementScorer.use_openai
          use_anthropic,  \* AIEngagementScorer.use_anthropic
          settings,       \* Company.settings['ai_scoring'] of each company
          ai_scorers,     \* AICredentialManager.ai_scorers
          call            \* the last call made: operation, input and outcome

vars == <<model, scaler, threshold, use_openai, use_anthropic, settings, ai_scorers, call>>

-----------------------------------------------------------------------------
(* Python values: a dict entry holds a number, a string or None.            *)

Num(n) == [k |-> "num", n |-> n, s |-> ""]
Str(s) == [k |-> "str", n |-> 0, s |-> s]
None == [k |-> "none", n |-> 0, s |-> ""]

EmptyFields == [x \in {} |-> None]

(* A sub-section of a record: a dict, or (malformed) None or a list.        *)
Map(f) == [k |-> "map", f |-> f]
NoneSection == [k |-> "none", f |-> EmptyFields]
ListSection == [k |-> "list", f |-> EmptyFields]

(* dict.get(key, default) on a sub-section that is a dict.                  *)
Get(sec, key, default) == IF key \in DOMAIN sec.f THEN sec.f[key] ELSE default

(* employee_data.get(name, {})                                              *)
GetSection(rec, name) == IF name \in DOMAIN rec THEN rec[name] ELSE Map(EmptyFields)

-----------------------------------------------------------------------------
(* Exact rational arithmetic.                                               *)

Abs(x) == IF x < 0 THEN -x ELSE x

RECURSIVE GCD(_, _)
GCD(a, b) == IF b = 0 THEN a ELSE GCD(b, a % b)

R(n, d) ==
    LET sn == IF d < 0 THEN -n ELSE n
        sd == Abs(d)
        g == GCD(Abs(sn), sd)
    IN [n |-> sn \div g, d |-> sd \div g]

RInt(i) == [n |-> i, d |-> 1]
RAdd(a, b) == R(a.n * b.d + b.n * a.d, a.d * b.d)
RSub(a, b) == R(a.n * b.d - b.n * a.d, a.d * b.d)
RMul(a, b) == R(a.n * b.n, a.d * b.d)
RDivInt(a, i) == R(a.n, a.d * i)
RDiv(a, b) == R(a.n * b.d, a.d * b.n)
RLt(a, b) == a.n * b.d < b.n * a.d
RLe(a, b) == a.n * b.d <= b.n * a.d
RMin(a, b) == IF RLt(b, a) THEN b ELSE a
RMax(a, b) == IF RLt(a, b) THEN b ELSE a
(* A variant that keeps the sign.                                           *)
RAbsSigned(a) == a
RAbs(a) == [n |-> Abs(a.n), d |-> a.d]

(* The number a numeric entry stands for.                                   *)
ValR(v) == R(v.n, 100)

-----------------------------------------------------------------------------
(* FeatureExtractor (backend/services/feature_extractor.py)                 *)

IsNum(v) == v.k = "num"
IsStr(v) == v.k = "str"

(* An entry of the feature list: a number, or the non-numeric value the     *)
(* record held where the code copies the value without arithmetic.          *)
FNum(q) == [k |-> "num", q |-> q]
FRaw(v) == IF IsNum(v) THEN FNum(ValR(v)) ELSE [k |-> v.k, q |-> RInt(0)]

(* str.lower() on the strings records carry.                                *)
Lower(s) ==
    CASE s = "Engineering" -> "engineering"
      [] s = "Sales" -> "sales"
      [] s = "HR" -> "hr"
      [] s = "Declining" -> "declining"
      [] s = "Stable" -> "stable"
      [] s = "Senior Engineer" -> "senior engineer"
      [] s = "Team Lead" -> "team lead"
      [] s = "Engineering Manager" -> "engineering manager"
      [] s = "Senior Manager" -> "senior manager"
      [] s = "Junior Analyst" -> "junior analyst"
      [] s = "Entry Level Clerk" -> "entry level clerk"
      [] s = "Analyst" -> "analyst"
      [] OTHER -> s

(* sub in s, for lower-cased position titles.                               *)
Contains(s, sub) ==
    CASE s = "senior engineer" -> sub \in {"senior"}
      [] s = "team lead" -> sub \in {"lead"}
      [] s = "engineering manager" -> sub \in {"manager"}
      [] s = "senior manager" -> sub \in {"senior", "manager"}
      [] s = "director" -> sub \in {"director"}
      [] s = "junior analyst" -> sub \in {"junior"}
      [] s = "entry level clerk" -> sub \in {"entry"}
      [] OTHER -> FALSE

_encode_department(department) ==
    LET d == Lower(department) IN
    CASE d = "engineering" -> R(1, 10)
      [] d = "product" -> R(2, 10)
      [] d = "sales" -> R(3, 10)
      [] d = "marketing" -> R(4, 10)
      [] d = "hr" -> R(5, 10)
      [] d = "finance" -> R(6, 10)
      [] d = "operations" -> R(7, 10)
      [] d = "support" -> R(8, 10)
      [] OTHER -> R(5, 10)

_encode_position_level(position) ==
    LET p == Lower(position) IN
    IF Contains(p, "senior") \/ Contains(p, "lead") THEN R(8, 10)
    ELSE IF Contains(p, "manager") \/ Contains(p, "director") THEN R(9, 10)
    ELSE IF Contains(p, "junior") \/ Contains(p, "entry") THEN R(3, 10)
    ELSE R(5, 10)

_encode_trend(trend) ==
    LET t == Lower(trend) IN
    CASE t = "declining" -> RInt(-1)
      [] t = "stable" -> RInt(0)
      [] t = "improving" -> RInt(1)
      [] OTHER -> RInt(0)

(* sec.get(key, 0) / div                                                    *)
Scaled(sec, key, div) == FNum(RDivInt(ValR(Get(sec, key, Num(0))), div))
(* sec.get(key, 0), copied as it is                                         *)
Raw(sec, key) == FRaw(Get(sec, key, Num(0)))
(* A variant that takes an absent trend for a declining one.               *)
TrendDefaultDeclining(sec, key) ==
    FNum(_encode_trend(Get(sec, key, Str("declining")).s))
(* self._encode_trend(sec.get(key, 'stable'))                               *)
Trend(sec, key) == FNum(_encode_trend(Get(sec, key, Str("stable")).s))

(* The entries on which extract_features does arithmetic or calls a string  *)
(* method: a value of another type there raises.                            *)
BasicRaises(basic) ==
    \/ ~IsNum(Get(basic, "tenure_days", Num(0)))
    \/ ~IsStr(Get(basic, "department", Str("")))
    \/ ~IsStr(Get(basic, "position", Str("")))

SlackRaises(slack) ==
    \/ \E key \in {"message_count", "avg_response_time", "active_channels",
                   "after_hours_messages"} : ~IsNum(Get(slack, key, Num(0)))
    \/ ~IsStr(Get(slack, "participation_trend", Str("stable")))

EmailRaises(email) ==
    \E key \in {"sent_count", "received_count", "avg_response_time",
                "unread_percentage", "after_hours_emails",
                "external_communication"} : ~IsNum(Get(email, key, Num(0)))

CalendarRaises(calendar) ==
    \E key \in {"meeting_hours", "meetings_declined", "one_on_ones", "pto_days"} :
        ~IsNum(Get(calendar, key, Num(0)))

ProductivityRaises(productivity) ==
    \/ \E key \in {"project_involvement", "code_commits",
                   "ticket_resolution_time"} : ~IsNum(Get(productivity, key, Num(0)))
    \/ ~IsStr(Get(productivity, "performance_trend", Str("stable")))

DerivedRaises(data) ==
    LET slack == GetSection(data, "slack_metrics")
        calendar == GetSection(data, "calendar_metrics")
    IN \/ ~IsNum(Get(calendar, "meeting_participation", Num(0)))
       \/ ~IsNum(Get(slack, "sentiment_score", Num(0)))

_calculate_derived_features(data) ==
    LET slack == GetSection(data, "slack_metrics")
        email == GetSection(data, "email_metrics")
        calendar == GetSection(data, "calendar_metrics")
        slack_activity == ValR(Get(slack, "message_count", Num(0)))
        email_activity == ValR(Get(email, "sent_count", Num(0)))
        comm_balance == RDiv(RAbs(RSub(slack_activity, email_activity)),
                             RMax(RAdd(slack_activity, email_activity), RInt(1)))
        meeting_participation == ValR(Get(calendar, "meeting_participation", Num(0)))
        slack_sentiment == ValR(Get(slack, "sentiment_score", Num(0)))
        engagement == RDivInt(RAdd(meeting_participation, slack_sentiment), 2)
        after_hours_slack == ValR(Get(slack, "after_hours_messages", Num(0)))
        after_hours_email == ValR(Get(email, "after_hours_emails", Num(0)))
        meeting_hours == ValR(Get(calendar, "meeting_hours", Num(0)))
        burnout_risk == RAdd(RDivInt(RAdd(after_hours_slack, after_hours_email), 200),
                             RMin(RDivInt(meeting_hours, 40), RInt(1)))
        active_channels == ValR(Get(slack, "active_channels", Num(0)))
        one_on_ones == ValR(Get(calendar, "one_on_ones", Num(0)))
        isolation == RSub(RInt(1),
                          RDivInt(RAdd(RMin(RDivInt(active_channels, 10), RInt(1)),
                                       RMin(RDivInt(one_on_ones, 5), RInt(1))), 2))
    IN <<FNum(comm_balance), FNum(engagement), FNum(burnout_risk), FNum(isolation)>>

(* extract_features: the feature list, or the exception that ends the call. *)
extract_features(employee_data) ==
    LET basic == GetSection(employee_data, "basic_info")
        slack == GetSection(employee_data, "slack_metrics")
        email == GetSection(employee_data, "email_metrics")
        calendar == GetSection(employee_data, "calendar_metrics")
        productivity == GetSection(employee_data, "productivity_metrics")
    IN
    IF \/ \E sec \in {basic, slack, email, calendar, productivity} : sec.k # "map"
       \/ BasicRaises(basic) \/ SlackRaises(slack) \/ EmailRaises(email)
       \/ CalendarRaises(calendar) \/ ProductivityRaises(productivity)
       \/ DerivedRaises(employee_data)
    THEN [kind |-> "raised", features |-> <<>>]
    ELSE [kind |-> "ok", features |->
           << FNum(RDivInt(ValR(Get(basic, "tenure_days", Num(0))), 365)),
              FNum(_encode_department(Get(basic, "department", Str("")).s)),
              FNum(_encode_position_level(Get(basic, "position", Str("")).s)) >>
        \o << Scaled(slack, "message_count", 100),
              Scaled(slack, "avg_response_time", 60),
              Scaled(slack, "active_channels", 10),
              Raw(slack, "sentiment_score"),
              Scaled(slack, "after_hours_messages", 100),
              Trend(slack, "participation_trend") >>
        \o << Scaled(email, "sent_count", 100),
              Scaled(email, "received_count", 100),
              Scaled(email, "avg_response_time", 24),
              Scaled(email, "unread_percentage", 100),
              Scaled(email, "after_hours_emails", 100),
              Raw(email, "email_sentiment"),
              Scaled(email, "external_communication", 100) >>
        \o << Scaled(calendar, "meeting_hours", 40),
              Scaled(calendar, "meetings_declined", 100),
              Scaled(calendar, "one_on_ones", 10),
              Raw(calendar, "recurring_meetings_dropped"),
              Raw(calendar, "meeting_participation"),
              Raw(calendar, "calendar_fragmentation"),
              Scaled(calendar, "pto_days", 20) >>
        \o << Raw(productivity, "task_completion_rate"),
              Scaled(productivity, "project_involvement", 5),
              Scaled(productivity, "code_commits", 50),
              Scaled(productivity, "ticket_resolution_time", 48),
              Trend(productivity, "performance_trend"),
              Raw(productivity, "skill_utilization"),
              Raw(productivity, "workload_balance") >>
        \o _calculate_derived_features(employee_data) ]

(* The names get_feature_importance zips with the model's importances.      *)
feature_names ==
    << "tenure_years", "department", "position_level",
       "slack_messages", "slack_response_time", "slack_channels",
       "slack_sentiment", "slack_after_hours", "slack_trend",
       "email_sent", "email_received", "email_response_time",
       "email_unread", "email_after_hours", "email_sentiment",
       "email_external", "meeting_hours", "meetings_declined",
       "one_on_ones", "recurring_dropped", "meeting_participation",
       "calendar_fragmentation", "pto_days", "task_completion",
       "project_involvement", "code_commits", "ticket_resolution",
       "performance_trend", "skill_utilization", "workload_balance",
       "comm_balance", "engagement", "burnout_risk", "isolation" >>

-----------------------------------------------------------------------------
(* MLPredictor (backend/services/ml_predictor.py)                           *)

(* A risk score: v millionths, and the sign r of what the double the code   *)
(* holds differs from the double nearest to that decimal by (0 when the     *)
(* score is that double itself, as every literal and every probability is). *)
Score(v, r) == [v |-> v, r |-> r]
Lit(v) == Score(v, 0)
GE(a, b) == a.v > b.v \/ (a.v = b.v /\ a.r >= b.r)
GT(a, b) == a.v > b.v \/ (a.v = b.v /\ a.r > b.r)
(* A variant that does not clamp.                                           *)
ScoreMinUnclamped(a, b) == a
(* min(a, b)                                                                *)
ScoreMin(a, b) == IF GE(a, b) THEN b ELSE a

(* risk_score += w in IEEE-754 double arithmetic, on the operands the rules *)
(* produce: 0.3 + 0.15 is 0.44999999999999996, 0.55 + 0.15 is              *)
(* 0.7000000000000001, every other sum is the double nearest its decimal.   *)
FloatAdd(a, w) ==
    Score(a.v + w,
          CASE a = Lit(300000) /\ w = 150000 -> -1
            [] a = Lit(550000) /\ w = 150000 -> 1
            [] OTHER -> 0)

(* A variant whose boundaries belong to the lower category.                 *)
_categorize_risk_strict(probability) ==
    IF GT(probability, Lit(750000)) THEN "critical"
    ELSE IF GT(probability, Lit(500000)) THEN "high"
    ELSE IF GT(probability, Lit(250000)) THEN "medium"
    ELSE "low"

_categorize_risk(probability) ==
    IF GE(probability, Lit(750000)) THEN "critical"
    ELSE IF GE(probability, Lit(500000)) THEN "high"
    ELSE IF GE(probability, Lit(250000)) THEN "medium"
    ELSE "low"

(* A variant whose "60-90 days" starts at 0.5.                              *)
_estimate_departure_window_shifted(probability) ==
    IF GE(probability, Lit(800000)) THEN "0-30 days"
    ELSE IF GE(probability, Lit(600000)) THEN "30-60 days"
    ELSE IF GE(probability, Lit(500000)) THEN "60-90 days"
    ELSE "Low immediate risk"

_estimate_departure_window(probability) ==
    IF GE(probability, Lit(800000)) THEN "0-30 days"
    ELSE IF GE(probability, Lit(600000)) THEN "30-60 days"
    ELSE IF GE(probability, Lit(400000)) THEN "60-90 days"
    ELSE "Low immediate risk"

(* SlackIntegration._get_departure_window                                   *)
(* (backend/integrations/slack_integration.py): the window a retention      *)
(* alert shows.                                                             *)
_get_departure_window(risk_score) ==
    IF GE(risk_score, Lit(750000)) THEN "0-30 days"
    ELSE IF GE(risk_score, Lit(500000)) THEN "30-60 days"
    ELSE IF GE(risk_score, Lit(250000)) THEN "60-90 days"
    ELSE "90+ days"

Intervention(action, description, priority, timeline, owner) ==
    [action |-> action, description |-> description, priority |-> priority,
     timeline |-> timeline, owner |-> owner]

PriorityRank(priority) ==
    CASE priority = "critical" -> 0
      [] priority = "high" -> 1
      [] priority = "medium" -> 2
      [] priority = "low" -> 3

(* A variant that leaves the list as generated.                             *)
SortedByPriorityUnsorted(interventions) == interventions

(* sorted(interventions, key=rank): a stable sort on four ranks.            *)
SortedByPriority(interventions) ==
    LET OfRank(i) == LET Is(x) == PriorityRank(x.priority) = i
                     IN SelectSeq(interventions, Is)
    IN OfRank(0) \o OfRank(1) \o OfRank(2) \o OfRank(3)

RetentionDiscussion ==
    Intervention("Retention Discussion",
                 "Discuss career goals, compensation, and growth opportunities",
                 "critical", "immediately", "Manager + HR")

(* A variant that counts 0.7 itself as high.                                *)
NeedsRetentionDiscussionGE(probability, interventions) ==
    GE(probability, Lit(700000)) /\ interventions = << >>

(* probability > 0.7 and not interventions                                  *)
NeedsRetentionDiscussion(probability, interventions) ==
    GT(probability, Lit(700000)) /\ interventions = << >>

_generate_interventions(risk_factors, probability) ==
    LET flags == DOMAIN risk_factors
        i1 == IF "declining_communication" \in flags
              THEN << Intervention("Schedule 1:1 Check-in",
                        "Have a direct conversation about engagement and any concerns",
                        "high", "within 3 days", "Direct Manager") >>
              ELSE << >>
        i2 == IF "burnout_risk" \in flags
              THEN << Intervention("Workload Review",
                        "Review current workload and consider redistribution or support",
                        "high", "within 1 week", "Manager + HR"),
                      Intervention("Promote Work-Life Balance",
                        "Encourage time off and establish after-hours boundaries",
                        "medium", "immediate", "Manager") >>
              ELSE << >>
        i3 == IF "negative_sentiment" \in flags
              THEN << Intervention("Employee Wellness Check",
                        "HR to conduct confidential wellness conversation",
                        "high", "within 3 days", "HR Partner") >>
              ELSE << >>
        i4 == IF "performance_decline" \in flags
              THEN << Intervention("Performance Support Plan",
                        "Identify skill gaps and provide training/mentoring",
                        "medium", "within 2 weeks", "Manager") >>
              ELSE << >>
        i5 == IF "meeting_avoidance" \in flags
              THEN << Intervention("Meeting Optimization",
                        "Review meeting necessity and employee involvement",
                        "low", "within 2 weeks", "Manager") >>
              ELSE << >>
        specific == i1 \o i2 \o i3 \o i4 \o i5
        interventions == IF NeedsRetentionDiscussion(probability, specific)
                         THEN << RetentionDiscussion >>
                         ELSE specific
    IN SortedByPriority(interventions)

(* The dict of flags: the flags raised, each with its severity.             *)
Flags(raised, severity) == [f \in raised |-> severity[f]]

(* A comparison of a value with a number raises unless it is a number.      *)
RuleBasedRaises(employee_data) ==
    LET slack == GetSection(employee_data, "slack_metrics")
        calendar == GetSection(employee_data, "calendar_metrics")
        productivity == GetSection(employee_data, "productivity_metrics")
    IN \/ slack.k # "map"
       \/ ~IsNum(Get(slack, "sentiment_score", Num(0)))
       \/ ~IsNum(Get(slack, "after_hours_messages", Num(0)))
       \/ calendar.k # "map"
       \/ ~IsNum(Get(calendar, "meetings_declined", Num(0)))
       \/ productivity.k # "map"

(* A variant confidence.                                                    *)
RuleBasedConfidenceHigh == R(75, 100)
(* The confidence the rule-based path reports.                              *)
RuleBasedConfidence == R(65, 100)

_rule_based_prediction(employee_data) ==
    LET slack == GetSection(employee_data, "slack_metrics")
        calendar == GetSection(employee_data, "calendar_metrics")
        productivity == GetSection(employee_data, "productivity_metrics")
        f1 == Get(slack, "participation_trend", None) = Str("declining")
        f2 == Get(slack, "sentiment_score", Num(0)).n < -20
        f3 == Get(slack, "after_hours_messages", Num(0)).n > 3000
        f4 == Get(calendar, "meetings_declined", Num(0)).n > 3000
        f5 == Get(productivity, "performance_trend", None) = Str("declining")
        s1 == IF f1 THEN FloatAdd(Lit(0), 300000) ELSE Lit(0)
        s2 == IF f2 THEN FloatAdd(s1, 200000) ELSE s1
        s3 == IF f3 THEN FloatAdd(s2, 200000) ELSE s2
        s4 == IF f4 THEN FloatAdd(s3, 150000) ELSE s3
        s5 == IF f5 THEN FloatAdd(s4, 150000) ELSE s4
        risk_score == ScoreMin(s5, Lit(950000))
        risk_factors ==
            Flags({f \in {"declining_communication"} : f1}
                  \cup {f \in {"negative_sentiment"} : f2}
                  \cup {f \in {"burnout_risk"} : f3}
                  \cup {f \in {"disengagement"} : f4}
                  \cup {f \in {"performance_decline"} : f5},
                  [declining_communication |-> "high", negative_sentiment |-> "high",
                   burnout_risk |-> "high", disengagement |-> "medium",
                   performance_decline |-> "medium"])
    IN IF RuleBasedRaises(employee_data)
       THEN [kind |-> "raised"]
       ELSE [kind |-> "returned",
             path |-> "fallback",
             score |-> risk_score,
             confidence |-> RuleBasedConfidence,
             risk_level |-> _categorize_risk(risk_score),
             risk_factors |-> risk_factors,
             departure_window |-> _estimate_departure_window(risk_score),
             suggested_interventions |->
                 _generate_interventions(risk_factors, risk_score)]

IdentifyRaises(employee_data) ==
    LET slack == GetSection(employee_data, "slack_metrics")
        calendar == GetSection(employee_data, "calendar_metrics")
        productivity == GetSection(employee_data, "productivity_metrics")
    IN \/ slack.k # "map"
       \/ /\ Get(slack, "participation_trend", None) # Str("declining")
          /\ ~IsNum(Get(slack, "message_count", Num(0)))
       \/ ~IsNum(Get(slack, "sentiment_score", Num(0)))
       \/ ~IsNum(Get(slack, "after_hours_messages", Num(0)))
       \/ calendar.k # "map"
       \/ ~IsNum(Get(calendar, "meetings_declined", Num(0)))
       \/ productivity.k # "map"
       \/ ~IsNum(Get(productivity, "workload_balance", Num(0)))

_identify_risk_factors(employee_data) ==
    LET slack == GetSection(employee_data, "slack_metrics")
        calendar == GetSection(employee_data, "calendar_metrics")
        productivity == GetSection(employee_data, "productivity_metrics")
        declining == Get(slack, "participation_trend", None) = Str("declining")
    IN Flags({f \in {"declining_communication"} : declining}
             \cup {f \in {"low_engagement"} :
                     ~declining /\ Get(slack, "message_count", Num(0)).n < 1000}
             \cup {f \in {"negative_sentiment"} :
                     Get(slack, "sentiment_score", Num(0)).n < -10}
             \cup {f \in {"burnout_risk"} :
                     Get(slack, "after_hours_messages", Num(0)).n > 2500}
             \cup {f \in {"meeting_avoidance"} :
                     Get(calendar, "meetings_declined", Num(0)).n > 2000}
             \cup {f \in {"performance_decline"} :
                     Get(productivity, "performance_trend", None) = Str("declining")}
             \cup {f \in {"workload_imbalance"} :
                     Get(productivity, "workload_balance", Num(0)).n < 30},
             [declining_communication |-> "high", low_engagement |-> "medium",
              negative_sentiment |-> "high", burnout_risk |-> "high",
              meeting_avoidance |-> "medium", performance_decline |-> "high",
              workload_imbalance |-> "high"])

(* np.sum(features != 0)                                                    *)
NonZero(features) == Cardinality({i \in DOMAIN features : features[i].q.n # 0})

(* A variant that gives completeness the weight 0.5.                        *)
_calculate_confidence_steep(features) ==
    LET data_completeness == R(NonZero(features), Len(features))
        confidence == RAdd(R(5, 10), RMul(data_completeness, R(50, 100)))
    IN RMin(confidence, R(95, 100))

_calculate_confidence(features) ==
    LET data_completeness == R(NonZero(features), Len(features))
        confidence == RAdd(R(5, 10), RMul(data_completeness, R(45, 100)))
    IN RMin(confidence, R(95, 100))

(* A variant of predict without its except clause: a step of the model path *)
(* that raises makes predict raise.                                         *)
predict_uncaught(mdl, employee_data, classifier) ==
    LET extracted == extract_features(employee_data)
        features == extracted.features
        probability == classifier.p
        risk_factors == _identify_risk_factors(employee_data)
    IN IF extracted.kind = "raised" THEN [kind |-> "raised"]
       ELSE IF mdl = "none" THEN _rule_based_prediction(employee_data)
       ELSE IF \/ \E i \in DOMAIN features : features[i].k # "num"
               \/ classifier.kind = "raises"
               \/ IdentifyRaises(employee_data)
            THEN [kind |-> "raised"]
       ELSE [kind |-> "returned",
             path |-> "model",
             score |-> probability,
             confidence |-> _calculate_confidence(features),
             risk_level |-> _categorize_risk(probability),
             risk_factors |-> risk_factors,
             departure_window |-> _estimate_departure_window(probability),
             suggested_interventions |->
                 _generate_interventions(risk_factors, probability)]

(* predict.  classifier is what scaler.transform and model.predict_proba do *)
(* with a numeric feature vector: "raises", or the probability they yield.  *)
predict(mdl, employee_data, classifier) ==
    LET extracted == extract_features(employee_data)
        features == extracted.features
        probability == classifier.p
        risk_factors == _identify_risk_factors(employee_data)
    IN IF extracted.kind = "raised" THEN _rule_based_prediction(employee_data)
       ELSE IF mdl = "none" THEN _rule_based_prediction(employee_data)
       ELSE IF \/ \E i \in DOMAIN features : features[i].k # "num"
               \/ classifier.kind = "raises"
               \/ IdentifyRaises(employee_data)
            THEN _rule_based_prediction(employee_data)
       ELSE [kind |-> "returned",
             path |-> "model",
             score |-> probability,
             confidence |-> _calculate_confidence(features),
             risk_level |-> _categorize_risk(probability),
             risk_factors |-> risk_factors,
             departure_window |-> _estimate_departure_window(probability),
             suggested_interventions |->
                 _generate_interventions(risk_factors, probability)]

-----------------------------------------------------------------------------
(* AIEngagementScorer (backend/services/ai_engagement_scorer.py)            *)

(* round(x, 2): the nearest hundredth, a tie going to the even one.         *)
Round2(q) ==
    LET n == q.n * 100
        fl == n \div q.d
        rem == n - fl * q.d
        up == 2 * rem > q.d \/ (2 * rem = q.d /\ fl % 2 = 1)
    IN R(IF up THEN fl + 1 ELSE fl, 100)

(* np.mean(scores)                                                          *)
RECURSIVE RSum(_)
RSum(scores) == IF scores = << >> THEN RInt(0)
                ELSE RAdd(Head(scores), RSum(Tail(scores)))
Mean(scores) == RDivInt(RSum(scores), Len(scores))

(* A metric group is a dict from metric name to value.                      *)
MGet(group, key, default) == IF key \in DOMAIN group THEN group[key].q ELSE default

PrepareRaises(employee_data) ==
    \/ \E name \in {"slack_metrics", "email_metrics", "calendar_metrics",
                    "productivity_metrics"} :
           name \in DOMAIN employee_data /\ employee_data[name].k # "map"
    \/ /\ "slack_metrics" \in DOMAIN employee_data
       /\ ~IsNum(Get(employee_data["slack_metrics"], "message_count", Num(0)))

_prepare_metrics(employee_data) ==
    LET slack == GetSection(employee_data, "slack_metrics")
        email == GetSection(employee_data, "email_metrics")
        calendar == GetSection(employee_data, "calendar_metrics")
        prod == GetSection(employee_data, "productivity_metrics")
        from_slack ==
            IF "slack_metrics" \in DOMAIN employee_data
            THEN [message_frequency |-> Scaled(slack, "message_count", 30),
                  response_time |-> Raw(slack, "avg_response_time"),
                  sentiment |-> Raw(slack, "sentiment_score"),
                  after_hours_percentage |-> Raw(slack, "after_hours_messages"),
                  channels_active |-> Raw(slack, "active_channels")]
            ELSE EmptyFields
        from_email ==
            IF "email_metrics" \in DOMAIN employee_data
            THEN [email_sent |-> Raw(email, "sent_count"),
                  email_received |-> Raw(email, "received_count"),
                  email_response_time |-> Raw(email, "avg_response_time"),
                  unread_percentage |-> Raw(email, "unread_percentage")]
            ELSE EmptyFields
    IN [communication |-> from_email @@ from_slack,
        productivity |->
            IF "productivity_metrics" \in DOMAIN employee_data
            THEN [tasks_completed |-> Raw(prod, "tasks_completed"),
                  projects_active |-> Raw(prod, "active_projects"),
                  deadline_adherence |-> Raw(prod, "on_time_percentage"),
                  velocity |-> Raw(prod, "velocity_score")]
            ELSE EmptyFields,
        collaboration |->
            IF "calendar_metrics" \in DOMAIN employee_data
            THEN [meeting_hours |-> Raw(calendar, "total_meeting_hours"),
                  one_on_ones |-> Raw(calendar, "one_on_one_count"),
                  declined_meetings |-> Raw(calendar, "declined_percentage"),
                  focus_time |-> Raw(calendar, "focus_time_hours"),
                  collaboration_hours |-> Raw(calendar, "collaboration_hours")]
            ELSE EmptyFields,
        wellbeing |->
            IF "calendar_metrics" \in DOMAIN employee_data
            THEN [pto_taken |-> Raw(calendar, "pto_days"),
                  after_hours_meetings |-> Raw(calendar, "after_hours_meetings"),
                  meeting_load |-> Raw(calendar, "meeting_load_score"),
                  weekend_work |-> Raw(calendar, "weekend_hours")]
            ELSE EmptyFields]

(* The metrics the scoring functions do arithmetic on: a value that is not  *)
(* a number there raises.                                                   *)
MetricsRaise(metrics) ==
    \/ \E key \in {"message_frequency", "sentiment", "response_time"} \cap
                  DOMAIN metrics.communication : metrics.communication[key].k # "num"
    \/ \E key \in {"meeting_hours", "one_on_ones", "focus_time"} \cap
                  DOMAIN metrics.collaboration : metrics.collaboration[key].k # "num"
    \/ \E key \in {"after_hours_meetings", "pto_taken", "meeting_load", "weekend_work"}
                  \cap DOMAIN metrics.wellbeing : metrics.wellbeing[key].k # "num"
    \/ \E key \in {"tasks_completed", "deadline_adherence", "projects_active"} \cap
                  DOMAIN metrics.productivity : metrics.productivity[key].k # "num"

(* An analysis: the dict the rule-based analysis builds or the remote       *)
(* model's JSON answer holds (has: the keys present), or a JSON value that  *)
(* is no object.                                                            *)
Analysis(has, engagement_score, risk_indicators, recommendations, confidence_level, key_factors) ==
    [k |-> "dict", has |-> has, engagement_score |-> engagement_score,
     risk_indicators |-> risk_indicators, recommendations |-> recommendations,
     confidence_level |-> confidence_level, key_factors |-> key_factors]

AnalysisKeys == {"engagement_score", "risk_indicators", "recommendations",
                 "confidence_level", "key_factors"}

NotAnObject == [k |-> "list", has |-> {}, engagement_score |-> None,
                risk_indicators |-> << >>, recommendations |-> << >>,
                confidence_level |-> None, key_factors |-> << >>]

Cond(b, items) == IF b THEN items ELSE << >>
Take(seq, n) == SubSeq(seq, 1, IF Len(seq) < n THEN Len(seq) ELSE n)

_get_fallback_analysis(metrics) ==
    LET comm == metrics.communication
        msg_freq == MGet(comm, "message_frequency", RInt(0))
        sentiment == MGet(comm, "sentiment", RInt(0))
        comm_score == RAdd(RMul(RMin(RDivInt(msg_freq, 20), RInt(1)), R(1, 2)),
                           RMul(RDivInt(RAdd(sentiment, RInt(1)), 2), R(1, 2)))
        collab == metrics.collaboration
        meeting_hours == MGet(collab, "meeting_hours", RInt(0))
        one_on_ones == MGet(collab, "one_on_ones", RInt(0))
        collab_score == RAdd(RMul(RMin(RDivInt(meeting_hours, 20), RInt(1)), R(7, 10)),
                             RMul(RMin(RDivInt(one_on_ones, 4), RInt(1)), R(3, 10)))
        wellbeing == metrics.wellbeing
        after_hours == MGet(wellbeing, "after_hours_meetings", RInt(0))
        pto_taken == MGet(wellbeing, "pto_taken", RInt(0))
        wellbeing_score ==
            RAdd(RMul(RMax(RInt(0), RSub(RInt(1), RDivInt(after_hours, 10))), R(1, 2)),
                 RMul(RMin(RDivInt(pto_taken, 15), RInt(1)), R(1, 2)))
        prod == metrics.productivity
        tasks == MGet(prod, "tasks_completed", RInt(0))
        deadline_adherence == MGet(prod, "deadline_adherence", RInt(0))
        prod_score == RAdd(RMul(RMin(RDivInt(tasks, 50), RInt(1)), R(4, 10)),
                           RMul(deadline_adherence, R(6, 10)))
        has_comm == DOMAIN comm # {}
        has_collab == DOMAIN collab # {}
        has_wellbeing == DOMAIN wellbeing # {}
        has_prod == DOMAIN prod # {}
        \* engagement_score += score * 0.25, for each group that has metrics
        total == RAdd(RAdd(RAdd(IF has_comm THEN RMul(comm_score, R(1, 4)) ELSE RInt(0),
                                IF has_collab THEN RMul(collab_score, R(1, 4)) ELSE RInt(0)),
                           IF has_wellbeing THEN RMul(wellbeing_score, R(1, 4)) ELSE RInt(0)),
                      IF has_prod THEN RMul(prod_score, R(1, 4)) ELSE RInt(0))
        no_metrics == total = RInt(0)
        engagement_score == IF no_metrics THEN R(1, 2) ELSE total
        risk_indicators ==
            Cond(has_comm /\ RLt(msg_freq, RInt(5)), <<"Low communication frequency">>)
            \o Cond(has_comm /\ RLt(sentiment, R(-3, 10)),
                    <<"Negative communication sentiment">>)
            \o Cond(has_collab /\ RLt(one_on_ones, RInt(2)),
                    <<"Insufficient 1-on-1 meetings">>)
            \o Cond(has_collab /\ RLt(RInt(30), meeting_hours), <<"Meeting overload">>)
            \o Cond(has_wellbeing /\ RLt(RInt(5), after_hours),
                    <<"High after-hours work">>)
            \o Cond(has_prod /\ RLt(deadline_adherence, R(7, 10)),
                    <<"Missing deadlines frequently">>)
        recommendations ==
            Cond(has_comm /\ RLt(msg_freq, RInt(5)), <<"Encourage more team interaction">>)
            \o Cond(has_collab /\ RLt(one_on_ones, RInt(2)),
                    <<"Schedule regular check-ins with manager">>)
            \o Cond(has_wellbeing /\ RLt(pto_taken, RInt(5)),
                    <<"Encourage taking time off">>)
            \o Cond(has_prod /\ RLt(deadline_adherence, R(7, 10)),
                    <<"Review workload and priorities">>)
            \o Cond(no_metrics,
                    <<"Insufficient data - enable integrations for better insights">>)
        key_factors ==
            Cond(has_comm /\ RLt(sentiment, R(-3, 10)),
                 <<"Poor sentiment in communications">>)
            \o Cond(has_collab /\ RLt(RInt(30), meeting_hours),
                    <<"Excessive meeting time">>)
            \o Cond(has_wellbeing /\ RLt(RInt(5), after_hours),
                    <<"Work-life balance concerns">>)
    IN Analysis(AnalysisKeys,
                FNum(Round2(engagement_score)),
                Take(risk_indicators, 5),
                Take(recommendations, 5),
                FNum(IF DOMAIN metrics # {} THEN R(7, 10) ELSE R(3, 10)),
                Take(key_factors, 3))

_score_communication(metrics) ==
    LET msg_freq == MGet(metrics, "message_frequency", RInt(0))
        sentiment == MGet(metrics, "sentiment", RInt(0))
        response_time == MGet(metrics, "response_time", RInt(60))
        frequency_score ==
            IF RLt(msg_freq, RInt(5)) THEN RMul(RDivInt(msg_freq, 5), R(1, 2))
            ELSE IF RLe(msg_freq, RInt(30))
            THEN RAdd(R(1, 2), RMul(RDivInt(RSub(msg_freq, RInt(5)), 25), R(1, 2)))
            ELSE RMax(R(3, 10), RSub(RInt(1), RDivInt(RSub(msg_freq, RInt(30)), 30)))
    IN IF DOMAIN metrics = {} THEN R(1, 2)
       ELSE Mean(<< frequency_score,
                    RDivInt(RAdd(sentiment, RInt(1)), 2),
                    RMax(RInt(0), RSub(RInt(1), RDivInt(response_time, 120))) >>)

_score_collaboration(metrics) ==
    LET meeting_hours == MGet(metrics, "meeting_hours", RInt(0))
        one_on_ones == MGet(metrics, "one_on_ones", RInt(0))
        focus_time == MGet(metrics, "focus_time", RInt(0))
        meeting_score ==
            IF RLt(meeting_hours, RInt(5)) THEN RMul(RDivInt(meeting_hours, 5), R(1, 2))
            ELSE IF RLe(meeting_hours, RInt(20))
            THEN RAdd(R(1, 2), RMul(RDivInt(RSub(meeting_hours, RInt(5)), 15), R(1, 2)))
            ELSE RMax(R(3, 10), RSub(RInt(1), RDivInt(RSub(meeting_hours, RInt(20)), 20)))
    IN IF DOMAIN metrics = {} THEN R(1, 2)
       ELSE Mean(<< meeting_score,
                    RMin(RInt(1), RDivInt(one_on_ones, 3)),
                    RMin(RInt(1), RDivInt(focus_time, 15)) >>)

_score_productivity(metrics) ==
    LET tasks == MGet(metrics, "tasks_completed", RInt(0))
        deadline_score == MGet(metrics, "deadline_adherence", RInt(0))
        projects == MGet(metrics, "projects_active", RInt(0))
        project_score ==
            IF RLt(projects, RInt(1)) THEN R(3, 10)
            ELSE IF RLe(projects, RInt(5)) THEN RAdd(R(7, 10), RMul(projects, R(6, 100)))
            ELSE RMax(R(4, 10), RSub(RInt(1), RDivInt(RSub(projects, RInt(5)), 5)))
    IN IF DOMAIN metrics = {} THEN R(1, 2)
       ELSE Mean(<< RMin(RInt(1), RDivInt(tasks, 30)), deadline_score, project_score >>)

_score_wellbeing(metrics) ==
    LET pto == MGet(metrics, "pto_taken", RInt(0))
        after_hours == MGet(metrics, "after_hours_meetings", RInt(0))
        meeting_load == MGet(metrics, "meeting_load", R(1, 2))
        weekend_work == MGet(metrics, "weekend_work", RInt(0))
    IN IF DOMAIN metrics = {} THEN R(1, 2)
       ELSE Mean(<< RMin(RInt(1), RDivInt(pto, 15)),
                    RMax(RInt(0), RSub(RInt(1), RDivInt(after_hours, 10))),
                    RSub(RInt(1), meeting_load),
                    RMax(RInt(0), RSub(RInt(1), RDivInt(weekend_work, 5))) >>)

(* ai_analysis.get(key, default)                                            *)
AGet(ai_analysis, key, default) ==
    IF key \in ai_analysis.has THEN ai_analysis[key] ELSE default

(* A variant that blends 60% of the components with 40% of the base score.  *)
_calculate_component_scores_base40(metrics, ai_analysis) ==
    LET base_score == AGet(ai_analysis, "engagement_score", FNum(R(1, 2))).q
        comm_score == _score_communication(metrics.communication)
        collab_score == _score_collaboration(metrics.collaboration)
        prod_score == _score_productivity(metrics.productivity)
        well_score == _score_wellbeing(metrics.wellbeing)
        overall ==
            RAdd(RMul(RAdd(RAdd(RAdd(RMul(comm_score, R(1, 4)),
                                     RMul(collab_score, R(1, 4))),
                                RMul(prod_score, R(1, 4))),
                           RMul(well_score, R(1, 4))),
                      R(6, 10)),
                 RMul(base_score, R(4, 10)))
    IN [communication_score |-> Round2(comm_score),
        collaboration_score |-> Round2(collab_score),
        productivity_score |-> Round2(prod_score),
        wellbeing_score |-> Round2(well_score),
        overall_score |-> Round2(overall)]

_calculate_component_scores(metrics, ai_analysis) ==
    LET base_score == AGet(ai_analysis, "engagement_score", FNum(R(1, 2))).q
        comm_score == _score_communication(metrics.communication)
        collab_score == _score_collaboration(metrics.collaboration)
        prod_score == _score_productivity(metrics.productivity)
        well_score == _score_wellbeing(metrics.wellbeing)
        overall ==
            RAdd(RMul(RAdd(RAdd(RAdd(RMul(comm_score, R(1, 4)),
                                     RMul(collab_score, R(1, 4))),
                                RMul(prod_score, R(1, 4))),
                           RMul(well_score, R(1, 4))),
                      R(7, 10)),
                 RMul(base_score, R(3, 10)))
    IN [communication_score |-> Round2(comm_score),
        collaboration_score |-> Round2(collab_score),
        productivity_score |-> Round2(prod_score),
        wellbeing_score |-> Round2(well_score),
        overall_score |-> Round2(overall)]

(* A variant whose "engaged" starts at 0.60.                                *)
_determine_engagement_level_shifted(score) ==
    IF RLe(R(80, 100), score) THEN "highly_engaged"
    ELSE IF RLe(R(60, 100), score) THEN "engaged"
    ELSE IF RLe(R(50, 100), score) THEN "neutral"
    ELSE IF RLe(R(35, 100), score) THEN "at_risk"
    ELSE "disengaged"

_determine_engagement_level(score) ==
    IF RLe(R(80, 100), score) THEN "highly_engaged"
    ELSE IF RLe(R(65, 100), score) THEN "engaged"
    ELSE IF RLe(R(50, 100), score) THEN "neutral"
    ELSE IF RLe(R(35, 100), score) THEN "at_risk"
    ELSE "disengaged"

(* A variant that keeps every occurrence.                                   *)
DedupKeepAll(recs, seen) == recs

(* The first occurrence of each string, in order.                           *)
RECURSIVE Dedup(_, _)
Dedup(recs, seen) ==
    IF recs = << >> THEN << >>
    ELSE IF Head(recs) \in seen THEN Dedup(Tail(recs), seen)
    ELSE << Head(recs) >> \o Dedup(Tail(recs), seen \cup {Head(recs)})

(* A variant whose score-based recommendations start below 0.4.            *)
_generate_recommendations_below04(scores, ai_analysis) ==
    LET recommendations ==
            AGet(ai_analysis, "recommendations", << >>)
            \o Cond(RLt(scores.communication_score, R(4, 10)),
                    <<"Increase team communication and collaboration">>)
            \o Cond(RLt(scores.wellbeing_score, R(4, 10)),
                    <<"Review work-life balance and meeting load">>)
            \o Cond(RLt(scores.productivity_score, R(4, 10)),
                    <<"Assess workload distribution and priorities">>)
            \o Cond(RLt(scores.collaboration_score, R(4, 10)),
                    <<"Schedule regular 1-on-1s and team activities">>)
    IN Take(Dedup(recommendations, {}), 5)

_generate_recommendations(scores, ai_analysis) ==
    LET recommendations ==
            AGet(ai_analysis, "recommendations", << >>)
            \o Cond(RLt(scores.communication_score, R(1, 2)),
                    <<"Increase team communication and collaboration">>)
            \o Cond(RLt(scores.wellbeing_score, R(1, 2)),
                    <<"Review work-life balance and meeting load">>)
            \o Cond(RLt(scores.productivity_score, R(1, 2)),
                    <<"Assess workload distribution and priorities">>)
            \o Cond(RLt(scores.collaboration_score, R(1, 2)),
                    <<"Schedule regular 1-on-1s and team activities">>)
    IN Take(Dedup(recommendations, {}), 5)

_get_default_score ==
    [source |-> "default",
     engagement_score |-> R(1, 2),
     engagement_level |-> "neutral",
     components |-> [communication |-> R(1, 2), collaboration |-> R(1, 2),
                     productivity |-> R(1, 2), wellbeing |-> R(1, 2)],
     confidence |-> FNum(R(1, 10)),
     risk_indicators |-> <<"Insufficient data">>,
     recommendations |-> <<"Enable integrations for accurate scoring">>,
     key_factors |-> << >>]

(* What the remote provider's reply leads _get_openai_analysis and          *)
(* _get_anthropic_analysis to: the parsed JSON of the answer when the       *)
(* status is 200 and the body, the envelope and the answer all parse;       *)
(* otherwise the rule-based analysis.                                       *)
RemoteFailures == {"network_error", "non_200", "body_not_json", "bad_envelope",
                   "answer_not_json"}

_get_remote_analysis(metrics, reply) ==
    IF reply.kind \in RemoteFailures THEN _get_fallback_analysis(metrics)
    ELSE reply.answer

_get_ai_analysis(openai, anthropic, metrics, reply) ==
    IF openai \/ anthropic THEN _get_remote_analysis(metrics, reply)
    ELSE _get_fallback_analysis(metrics)

(* A variant that asks every configured provider.                           *)
RequestsEveryProvider(openai, anthropic, employee_data) ==
    IF PrepareRaises(employee_data) THEN << >>
    ELSE Cond(openai, <<"openai">>) \o Cond(anthropic, <<"anthropic">>)

(* The remote requests one call of calculate_engagement_score issues.       *)
Requests(openai, anthropic, employee_data) ==
    IF PrepareRaises(employee_data) THEN << >>
    ELSE IF openai THEN <<"openai">>
    ELSE IF anthropic THEN <<"anthropic">>
    ELSE << >>

(* The analysis raises in the scoring that follows unless it is an object   *)
(* whose engagement_score is a number and whose recommendations are a list. *)
AnalysisRaises(ai_analysis) ==
    \/ ai_analysis.k # "dict"
    \/ AGet(ai_analysis, "engagement_score", FNum(R(1, 2))).k # "num"

(* The assessment calculate_engagement_score returns from the component     *)
(* scores and the analysis.                                                 *)
Assessment(scores, ai_analysis) ==
    [source |-> "computed",
     engagement_score |-> scores.overall_score,
     engagement_level |-> _determine_engagement_level(scores.overall_score),
     components |-> [communication |-> scores.communication_score,
                     collaboration |-> scores.collaboration_score,
                     productivity |-> scores.productivity_score,
                     wellbeing |-> scores.wellbeing_score],
     confidence |-> AGet(ai_analysis, "confidence_level", FNum(R(7, 10))),
     risk_indicators |-> AGet(ai_analysis, "risk_indicators", << >>),
     recommendations |-> _generate_recommendations(scores, ai_analysis),
     key_factors |-> AGet(ai_analysis, "key_factors", << >>)]

(* calculate_engagement_score from the analysis on: any exception ends in   *)
(* the default score.                                                       *)
ScoreAnalysis(metrics, ai_analysis) ==
    IF AnalysisRaises(ai_analysis) THEN _get_default_score
    ELSE Assessment(_calculate_component_scores(metrics, ai_analysis), ai_analysis)

(* calculate_engagement_score from the prepared metrics on.                 *)
ScoreMetrics(openai, anthropic, metrics, reply) ==
    IF MetricsRaise(metrics) THEN _get_default_score
    ELSE ScoreAnalysis(metrics,
                       IF openai \/ anthropic
                       THEN _get_ai_analysis(openai, anthropic, metrics, reply)
                       ELSE _get_fallback_analysis(metrics))

calculate_engagement_score(openai, anthropic, employee_data, reply) ==
    IF PrepareRaises(employee_data) THEN _get_default_score
    ELSE ScoreMetrics(openai, anthropic, _prepare_metrics(employee_data), reply)

-----------------------------------------------------------------------------
(* The inputs the calls are made with.                                      *)

(* The number of equal steps the score grid cuts [0, 1] into.               *)
GridPoints == 20

(* Scores: an even grid over [0, 1], every threshold of the code with its   *)
(* two neighbours, and the two sums the rules reach off their decimal.      *)
ScoreGrid ==
    {Lit(k * (1000000 \div GridPoints)) : k \in 0..GridPoints}
    \cup {Lit(t + e) : t \in {250000, 400000, 500000, 600000, 700000, 750000, 800000},
                       e \in {-1, 0, 1}}
    \cup {Score(450000, -1), Score(700000, 1)}

(* Engagement scores: thousandths around each level threshold, and an even  *)
(* grid of hundredths.                                                      *)
EngagementGrid ==
    {R(t + e, 1000) : t \in {350, 500, 650, 800}, e \in {-1, 0, 1}}
    \cup {R(k * (100 \div GridPoints), 100) : k \in 0..GridPoints}

(* A dict with any one of the given values under key, or without the key.   *)
Opt(key, values) == {EmptyFields} \cup {key :> v : v \in values}
(* The dict f without the keys outside keys.                                *)
Restrict(f, keys) == [key \in DOMAIN f \cap keys |-> f[key]]
(* A dict with every key, with all but one key, with one key only, or empty. *)
Partials(f) ==
    {f, EmptyFields}
    \cup {Restrict(f, DOMAIN f \ {key}) : key \in DOMAIN f}
    \cup {Restrict(f, {key}) : key \in DOMAIN f}

(* Records for predict: the values on either side of every threshold the    *)
(* rules and the flag identification compare with, and malformed entries.   *)
PredictSlack ==
    {Map(a @@ b @@ c @@ d) :
        a \in Opt("participation_trend", {Str("declining")}),
        b \in Opt("sentiment_score", {Num(-30), Num(-20)}),
        c \in Opt("after_hours_messages", {Num(3000), Num(3500)}),
        d \in Opt("message_count", {Num(2000)})}
    \cup {NoneSection, ListSection,
          Map("sentiment_score" :> None),
          Map("after_hours_messages" :> None),
          Map("participation_trend" :> None)}

PredictCalendar ==
    {Map("meetings_declined" :> v) : v \in {Num(2500), Num(3000), Num(3500), None}}
    \cup {NoneSection}

PredictProductivity ==
    {Map(a @@ b) : a \in Opt("performance_trend", {Str("declining")}),
                   b \in Opt("workload_balance", {Num(20), Num(30)})}
    \cup {NoneSection}

SectionNames == {"basic_info", "slack_metrics", "email_metrics", "calendar_metrics",
                 "productivity_metrics"}

(* Records whose every sub-section is absent or an empty dict.              *)
EmptyRecords ==
    {[name \in present |-> Map(EmptyFields)] : present \in SUBSET SectionNames}

PredictRecords ==
    {a @@ b @@ c : a \in Opt("slack_metrics", PredictSlack),
                   b \in Opt("calendar_metrics", PredictCalendar),
                   c \in Opt("productivity_metrics", PredictProductivity)}
    \cup EmptyRecords

(* What the scaler and the classifier do with a numeric feature vector.     *)
Classifiers ==
    {[kind |-> "raises", p |-> Lit(0)]}
    \cup {[kind |-> "ok", p |-> Lit(v)] :
            v \in {0, 250000, 650000, 700000, 700001, 750000, 800000}}

(* Records for extract_features: every sub-section absent, empty or full,   *)
(* and one sub-section of the full record cut down to part of its fields.   *)
FullBasic == [tenure_days |-> Num(73000), department |-> Str("Engineering"),
              position |-> Str("Senior Manager")]
FullSlack == [message_count |-> Num(12000), avg_response_time |-> Num(4500),
              active_channels |-> Num(400), sentiment_score |-> Num(-30),
              after_hours_messages |-> Num(3500),
              participation_trend |-> Str("declining")]
FullEmail == [sent_count |-> Num(4000), received_count |-> Num(9000),
              avg_response_time |-> Num(600), unread_percentage |-> Num(1500),
              after_hours_emails |-> Num(1000), email_sentiment |-> Num(20),
              external_communication |-> Num(2500)]
FullCalendar == [meeting_hours |-> Num(5000), meetings_declined |-> Num(3500),
                 one_on_ones |-> Num(200), recurring_meetings_dropped |-> Num(100),
                 meeting_participation |-> Num(60), calendar_fragmentation |-> Num(40),
                 pto_days |-> Num(500)]
FullProductivity == [task_completion_rate |-> Num(80), project_involvement |-> Num(300),
                     code_commits |-> Num(2500), ticket_resolution_time |-> Num(1200),
                     performance_trend |-> Str("improving"),
                     skill_utilization |-> Num(70), workload_balance |-> Num(50)]

FullSection(name) ==
    CASE name = "basic_info" -> FullBasic
      [] name = "slack_metrics" -> FullSlack
      [] name = "email_metrics" -> FullEmail
      [] name = "calendar_metrics" -> FullCalendar
      [] name = "productivity_metrics" -> FullProductivity

FullRecord == [name \in SectionNames |-> Map(FullSection(name))]

ExtractRecords ==
    {[name \in DOMAIN shape |->
         IF shape[name] = "full" THEN Map(FullSection(name)) ELSE Map(EmptyFields)] :
       shape \in UNION {[present -> {"empty", "full"}] : present \in SUBSET SectionNames}}
    \cup UNION {{[FullRecord EXCEPT ![name] = Map(part)] :
                    part \in Partials(FullSection(name))} : name \in SectionNames}

(* Records for calculate_engagement_score.                                  *)
ScorerSlack ==
    {Map(EmptyFields),
     Map([message_count |-> Num(30000), avg_response_time |-> Num(3000),
          sentiment_score |-> Num(50), active_channels |-> Num(400)]),
     Map([message_count |-> Num(6000), sentiment_score |-> Num(-50)]),
     Map([message_count |-> Num(0), sentiment_score |-> Num(-100)]),
     Map([message_count |-> Num(120000), avg_response_time |-> Num(15000)]),
     Map("sentiment_score" :> None),
     NoneSection}

ScorerEmail == {Map(EmptyFields), Map([sent_count |-> Num(4000)])}

ScorerCalendar ==
    {Map(EmptyFields),
     Map([total_meeting_hours |-> Num(1200), one_on_one_count |-> Num(300),
          focus_time_hours |-> Num(1500), pto_days |-> Num(1000)]),
     Map([total_meeting_hours |-> Num(3500), one_on_one_count |-> Num(100),
          after_hours_meetings |-> Num(600), pto_days |-> Num(200),
          meeting_load_score |-> Num(80), weekend_hours |-> Num(300)])}

ScorerProductivity ==
    {Map(EmptyFields),
     Map([tasks_completed |-> Num(3000), active_projects |-> Num(300),
          on_time_percentage |-> Num(90)]),
     Map([tasks_completed |-> Num(1000), active_projects |-> Num(700),
          on_time_percentage |-> Num(50)])}

ScorerRecords ==
    {a @@ b @@ c @@ d : a \in Opt("slack_metrics", ScorerSlack),
                        b \in Opt("email_metrics", ScorerEmail),
                        c \in Opt("calendar_metrics", ScorerCalendar),
                        d \in Opt("productivity_metrics", ScorerProductivity)}

(* The JSON answers a remote model gives.                                   *)
Answers ==
    {Analysis(AnalysisKeys, FNum(R(90, 100)), <<"Low communication frequency">>,
              <<"Encourage taking time off", "Encourage taking time off">>,
              FNum(R(80, 100)), <<"Workload">>),
     Analysis(AnalysisKeys, FNum(R(0, 100)), << >>, << >>, FNum(R(95, 100)), << >>),
     Analysis(AnalysisKeys, FNum(R(150, 100)), << >>, << >>, FNum(R(90, 100)), << >>),
     Analysis({}, None, << >>, << >>, None, << >>),
     Analysis({"engagement_score"}, [k |-> "str", q |-> RInt(0)], << >>, << >>,
              None, << >>),
     NotAnObject}

(* The replies of the remote provider.                                      *)
Replies ==
    {[kind |-> failure, answer |-> NotAnObject] : failure \in RemoteFailures}
    \cup {[kind |-> "answered", answer |-> answer] : answer \in Answers}

(* What load_model meets: the artifact loads; the artifact is missing and   *)
(* training succeeds or fails; the artifact cannot be read, or it lacks the *)
(* 'model' or the 'scaler' entry.                                           *)
LoadOutcomes == {"loaded", "trained", "train_failed", "unreadable",
                 "no_model_entry", "no_scaler_entry"}

-----------------------------------------------------------------------------
(* The state machine: a predictor, an extractor and a scorer, and the calls *)
(* made on them.                                                            *)

(* No call is in progress: the caller holds no result.                      *)
Idle == [op |-> "idle"]

(* The companies, providers and API keys of the credential manager.         *)
MaxCompanies == 1
Companies == 1..MaxCompanies
Providers == {"openai", "anthropic"}
ApiKeys == {"key-1", "key-2"}

(* A company without an 'ai_scoring' entry in its settings.                 *)
NoConfig == [provider |-> "", api_key |-> "", enabled |-> FALSE, configured |-> FALSE]

Init ==
    /\ model = "none"
    /\ scaler = "default"
    /\ threshold = "PREDICTION_THRESHOLD"
    /\ use_openai \in BOOLEAN
    /\ use_anthropic \in BOOLEAN
    /\ settings = [company_id \in Companies |-> NoConfig]
    /\ ai_scorers = EmptyFields
    /\ call = Idle

(* A variant of predict that puts a fresh scaler in place.                  *)
PredictResettingScaler ==
    /\ call = Idle
    /\ \E employee_data \in PredictRecords :
       \E classifier \in IF model = "none"      \* no classifier is consulted
                         THEN {c \in Classifiers : c.kind = "raises"}
                         ELSE Classifiers :
          call' = [op |-> "predict", input |-> employee_data, model |-> model,
                   classifier |-> IF model = "none" THEN "unused" ELSE classifier.kind,
                   result |-> predict(model, employee_data, classifier)]
    /\ scaler' = "default"
    /\ UNCHANGED <<model, threshold, use_openai, use_anthropic, settings, ai_scorers>>

(* MLPredictor.load_model, with train_model when no artifact is there.      *)
LoadModel ==
    /\ call = Idle
    /\ \E outcome \in LoadOutcomes :
          /\ model' = IF outcome \in {"loaded", "trained"} THEN "loaded" ELSE "none"
          /\ scaler' \in IF outcome \in {"loaded", "trained"} THEN {"fitted"}
                        ELSE IF outcome = "train_failed"   \* before or after the fit
                        THEN {scaler, "fitted"}
                        ELSE {scaler}
          /\ call' = [op |-> "load_model", outcome |-> outcome,
                      result |-> [kind |-> "returned",
                                  value |-> outcome # "train_failed"]]
    /\ UNCHANGED <<threshold, use_openai, use_anthropic, settings, ai_scorers>>

Predict ==
    /\ call = Idle
    /\ \E employee_data \in PredictRecords :
       \E classifier \in IF model = "none"      \* no classifier is consulted
                         THEN {c \in Classifiers : c.kind = "raises"}
                         ELSE Classifiers :
          call' = [op |-> "predict", input |-> employee_data, model |-> model,
                   classifier |-> IF model = "none" THEN "unused" ELSE classifier.kind,
                   result |-> predict(model, employee_data, classifier)]
    /\ UNCHANGED <<model, scaler, threshold, use_openai, use_anthropic, settings, ai_scorers>>

CategorizeRisk ==
    /\ call = Idle
    /\ \E probability \in ScoreGrid :
          call' = [op |-> "_categorize_risk", input |-> probability,
                   result |-> _categorize_risk(probability)]
    /\ UNCHANGED <<model, scaler, threshold, use_openai, use_anthropic, settings, ai_scorers>>

EstimateDepartureWindow ==
    /\ call = Idle
    /\ \E probability \in ScoreGrid :
          call' = [op |-> "_estimate_departure_window", input |-> probability,
                   result |-> _estimate_departure_window(probability)]
    /\ UNCHANGED <<model, scaler, threshold, use_openai, use_anthropic, settings, ai_scorers>>

ExtractFeatures ==
    /\ call = Idle
    /\ \E employee_data \in ExtractRecords :
          call' = [op |-> "extract_features", input |-> employee_data,
                   result |-> extract_features(employee_data)]
    /\ UNCHANGED <<model, scaler, threshold, use_openai, use_anthropic, settings, ai_scorers>>

CalculateEngagementScore ==
    /\ call = Idle
    /\ \E employee_data \in ScorerRecords :
       \E reply \in IF use_openai \/ use_anthropic       \* else no request is made
                    THEN Replies
                    ELSE {[kind |-> "unused", answer |-> NotAnObject]} :
          call' = [op |-> "calculate_engagement_score", input |-> employee_data,
                   reply |-> reply,
                   requests |-> Requests(use_openai, use_anthropic, employee_data),
                   result |-> calculate_engagement_score(use_openai, use_anthropic,
                                                          employee_data, reply)]
    /\ UNCHANGED <<model, scaler, threshold, use_openai, use_anthropic, settings, ai_scorers>>

DetermineEngagementLevel ==
    /\ call = Idle
    /\ \E score \in EngagementGrid :
          call' = [op |-> "_determine_engagement_level", input |-> score,
                   result |-> _determine_engagement_level(score)]
    /\ UNCHANGED <<model, scaler, threshold, use_openai, use_anthropic, settings, ai_scorers>>

(* The caller takes the result of the call; the next call can be made.      *)
Return ==
    /\ call # Idle
    /\ "result" \in DOMAIN call
    /\ call' = Idle
    /\ UNCHANGED <<model, scaler, threshold, use_openai, use_anthropic, settings, ai_scorers>>

(* create_retention_alert_blocks asks for the window of the alert's score.  *)
GetDepartureWindow ==
    /\ call = Idle
    /\ \E risk_score \in ScoreGrid :
          call' = [op |-> "_get_departure_window", input |-> risk_score,
                   result |-> _get_departure_window(risk_score)]
    /\ UNCHANGED <<model, scaler, threshold, use_openai, use_anthropic, settings, ai_scorers>>

(* Feature vectors for _calculate_confidence: as long as the vector         *)
(* extract_features builds, the first k entries non-zero (of either sign).  *)
ConfidenceVectors ==
    {[i \in DOMAIN feature_names |->
         FNum(IF i > k THEN RInt(0) ELSE IF i % 2 = 0 THEN R(-1, 2) ELSE RInt(1))] :
       k \in 0..Len(feature_names)}

CalculateConfidence ==
    /\ call = Idle
    /\ \E features \in ConfidenceVectors :
          call' = [op |-> "_calculate_confidence", input |-> features,
                   result |-> _calculate_confidence(features)]
    /\ UNCHANGED <<model, scaler, threshold, use_openai, use_anthropic, settings, ai_scorers>>

PredictorNext ==
    \/ LoadModel
    \/ Predict
    \/ CategorizeRisk
    \/ EstimateDepartureWindow
    \/ GetDepartureWindow
    \/ CalculateConfidence
    \/ Return

(* The largest message and sent-email count of the records for the derived *)
(* features.                                                                *)
MaxCount == 6

(* Records with a message count and a sent-email count.                     *)
CountRecords ==
    {[slack_metrics |-> Map([message_count |-> Num(100 * m)]),
      email_metrics |-> Map([sent_count |-> Num(100 * e)])] :
       m \in 0..MaxCount, e \in 0..MaxCount}

CalculateDerivedFeatures ==
    /\ call = Idle
    /\ \E data \in CountRecords :
          call' = [op |-> "_calculate_derived_features", input |-> data,
                   result |-> _calculate_derived_features(data)]
    /\ UNCHANGED <<model, scaler, threshold, use_openai, use_anthropic, settings, ai_scorers>>

ExtractorNext == ExtractFeatures \/ CalculateDerivedFeatures \/ Return

ScorerNext ==
    \/ CalculateEngagementScore
    \/ DetermineEngagementLevel
    \/ Return

PredictorInit == Init /\ ~use_openai /\ ~use_anthropic
SpecPredictor == PredictorInit /\ [][PredictorNext]_vars
SpecExtractor == PredictorInit /\ [][ExtractorNext]_vars
SpecScorer == Init /\ [][ScorerNext]_vars

-----------------------------------------------------------------------------
(* Batch scoring: MLPredictor.batch_predict and                             *)
(* AIEngagementScorer.batch_calculate.                                      *)

(* A declining trend, sentiment -0.3, 35 % after hours and nothing else.     *)
Scenario070Record ==
    "slack_metrics" :> Map([participation_trend |-> Str("declining"),
                            sentiment_score |-> Num(-30),
                            after_hours_messages |-> Num(3500)])

(* The largest batch.                                                       *)
MaxBatch == 2

(* employee_data.get('employee_id')                                         *)
EmployeeId(employee_data) ==
    IF "employee_id" \in DOMAIN employee_data THEN employee_data["employee_id"] ELSE None

(* The dict calculate_engagement_score returns carries the employee id.     *)
WithId(employee_data, assessment) ==
    [employee_id |-> EmployeeId(employee_data)] @@ assessment

(* batch_predict: a loop over the records in order; an exception predict    *)
(* lets through ends the loop and the call.                                 *)
batch_predict(mdl, employees_data, classifiers) ==
    IF \E i \in DOMAIN employees_data :
           predict(mdl, employees_data[i], classifiers[i]).kind = "raised"
    THEN [kind |-> "raised"]
    ELSE [kind |-> "returned",
          value |-> [i \in DOMAIN employees_data |->
                        predict(mdl, employees_data[i], classifiers[i])]]

(* The batches of at most MaxBatch records out of a set.                    *)
Batches(records) == UNION {[1..n -> records] : n \in 0..MaxBatch}

BatchPredictRecords ==
    {"employee_id" :> Str("E1"),
     ("employee_id" :> Str("E2")) @@ Scenario070Record,
     ("employee_id" :> Str("E3")) @@ ("slack_metrics" :> Map("sentiment_score" :> None))}

BatchClassifiers ==
    {[kind |-> "raises", p |-> Lit(0)], [kind |-> "ok", p |-> Lit(750000)]}

BatchScorerRecords ==
    {"employee_id" :> Str("E1"),
     ("employee_id" :> Str("E2"))
        @@ ("slack_metrics" :> Map([message_count |-> Num(6000),
                                    sentiment_score |-> Num(-50)])),
     ("employee_id" :> Str("E3")) @@ ("slack_metrics" :> NoneSection)}

BatchReplies ==
    {[kind |-> "network_error", answer |-> NotAnObject],
     [kind |-> "answered", answer |-> NotAnObject],
     [kind |-> "answered",
      answer |-> Analysis(AnalysisKeys, FNum(R(90, 100)), << >>, << >>,
                          FNum(R(80, 100)), << >>)]}

BatchPredict ==
    /\ call = Idle
    /\ \E employees_data \in Batches(BatchPredictRecords) :
       \E classifiers \in [DOMAIN employees_data ->
                              IF model = "none"
                              THEN {c \in BatchClassifiers : c.kind = "raises"}
                              ELSE BatchClassifiers] :
          call' = [op |-> "batch_predict", input |-> employees_data, model |-> model,
                   classifiers |-> classifiers,
                   result |-> batch_predict(model, employees_data, classifiers)]
    /\ UNCHANGED <<model, scaler, threshold, use_openai, use_anthropic, settings, ai_scorers>>

(* batch_calculate creates one coroutine per record and gathers them.       *)
BatchCalculate ==
    /\ call = Idle
    /\ \E employees_data \in Batches(BatchScorerRecords) :
       \E replies \in [DOMAIN employees_data ->
                          IF use_openai \/ use_anthropic
                          THEN BatchReplies
                          ELSE {[kind |-> "unused", answer |-> NotAnObject]}] :
          call' = [op |-> "batch_calculate", input |-> employees_data,
                   replies |-> replies, pending |-> DOMAIN employees_data,
                   completed |-> << >>, results |-> << >>]
    /\ UNCHANGED <<model, scaler, threshold, use_openai, use_anthropic, settings, ai_scorers>>

(* One of the pending computations completes: they complete in any order.   *)
TaskComplete ==
    /\ call.op = "batch_calculate"
    /\ "result" \notin DOMAIN call
    /\ \E i \in call.pending :
          call' = [call EXCEPT
                     !.pending = @ \ {i},
                     !.completed = Append(@, i),
                     !.results = @ @@ (i :> WithId(call.input[i],
                                          calculate_engagement_score(
                                              use_openai, use_anthropic,
                                              call.input[i], call.replies[i])))]
    /\ UNCHANGED <<model, scaler, threshold, use_openai, use_anthropic, settings, ai_scorers>>

(* asyncio.gather returns the results in the order of the coroutines.       *)
Gather ==
    /\ call.op = "batch_calculate"
    /\ "result" \notin DOMAIN call
    /\ call.pending = {}
    /\ call' = call @@
               [result |-> [kind |-> "returned",
                            value |-> [i \in DOMAIN call.input |-> call.results[i]]]]
    /\ UNCHANGED <<model, scaler, threshold, use_openai, use_anthropic, settings, ai_scorers>>

BatchNext ==
    \/ LoadModel
    \/ Predict
    \/ BatchPredict
    \/ BatchCalculate
    \/ TaskComplete
    \/ Gather
    \/ Return

SpecBatch == Init /\ [][BatchNext]_vars

-----------------------------------------------------------------------------
(* AICredentialManager (backend/services/credential_manager.py) with the    *)
(* routes that configure and disconnect AI scoring                          *)
(* (backend/api/integration_routes.py).                                     *)

(* The scorer get_ai_scorer builds: AIEngagementScorer() takes the keys of  *)
(* the environment (use_openai, use_anthropic), then the configured         *)
(* provider gets the decrypted key.                                         *)
NewScorer(ai_config, env_openai, env_anthropic) ==
    [openai_api_key |-> IF ai_config.provider = "openai" THEN ai_config.api_key
                        ELSE IF env_openai THEN "env" ELSE "",
     use_openai |-> env_openai \/ ai_config.provider = "openai",
     anthropic_api_key |-> IF ai_config.provider = "anthropic" THEN ai_config.api_key
                           ELSE IF env_anthropic THEN "env" ELSE "",
     use_anthropic |-> env_anthropic \/ ai_config.provider = "anthropic"]

(* save_ai_credentials: the commit succeeds or the save is rolled back.     *)
SaveAiCredentials ==
    /\ call = Idle
    /\ \E company_id \in Companies, provider \in Providers, api_key \in ApiKeys,
          saved \in BOOLEAN :
          /\ settings' = IF saved
                         THEN [settings EXCEPT ![company_id] =
                                  [provider |-> provider, api_key |-> api_key,
                                   enabled |-> TRUE, configured |-> TRUE]]
                         ELSE settings
          /\ call' = [op |-> "save_ai_credentials", company_id |-> company_id,
                      provider |-> provider, api_key |-> api_key,
                      result |-> [kind |-> "returned", value |-> saved]]
    /\ UNCHANGED <<model, scaler, threshold, use_openai, use_anthropic, ai_scorers>>

GetAiScorer ==
    /\ call = Idle
    /\ \E company_id \in Companies :
          IF company_id \in DOMAIN ai_scorers
          THEN /\ call' = [op |-> "get_ai_scorer", company_id |-> company_id,
                           result |-> [kind |-> "scorer",
                                       scorer |-> ai_scorers[company_id]]]
               /\ UNCHANGED ai_scorers
          ELSE IF ~settings[company_id].configured \/ ~settings[company_id].enabled
          THEN /\ call' = [op |-> "get_ai_scorer", company_id |-> company_id,
                           result |-> [kind |-> "none"]]
               /\ UNCHANGED ai_scorers
          ELSE /\ ai_scorers' =
                     (company_id :> NewScorer(settings[company_id],
                                              use_openai, use_anthropic))
                     @@ ai_scorers
               /\ call' = [op |-> "get_ai_scorer", company_id |-> company_id,
                           result |-> [kind |-> "scorer",
                                       scorer |-> NewScorer(settings[company_id],
                                                            use_openai, use_anthropic)]]
    /\ UNCHANGED <<model, scaler, threshold, use_openai, use_anthropic, settings>>

(* disconnect_ai_scoring: 404 without a configuration.                      *)
DisconnectAiScoring ==
    /\ call = Idle
    /\ \E company_id \in Companies :
          IF settings[company_id].configured
          THEN /\ settings' = [settings EXCEPT ![company_id].enabled = FALSE]
               /\ ai_scorers' = [c \in DOMAIN ai_scorers \ {company_id} |->
                                    ai_scorers[c]]
               /\ call' = [op |-> "disconnect_ai_scoring", company_id |-> company_id,
                           result |-> [kind |-> "returned", value |-> TRUE]]
          ELSE /\ UNCHANGED <<settings, ai_scorers>>
               /\ call' = [op |-> "disconnect_ai_scoring", company_id |-> company_id,
                           result |-> [kind |-> "raised"]]
    /\ UNCHANGED <<model, scaler, threshold, use_openai, use_anthropic>>

CredentialsNext ==
    \/ SaveAiCredentials
    \/ GetAiScorer
    \/ DisconnectAiScoring
    \/ Return

SpecCredentials == Init /\ [][CredentialsNext]_vars

-----------------------------------------------------------------------------
(* DataCollector (backend/services/data_collector.py) with the Slack and    *)
(* calendar integrations it reads (backend/integrations/).                  *)

(* SlackIntegration._calculate_final_metrics, for a user whose activity is  *)
(* total_messages direct messages: the fields collect_slack_data reads.     *)
_calculate_final_metrics(total_messages) ==
    Map([total_messages |-> Num(100 * total_messages),
         active_channels |-> Num(0),
         mentions_received |-> Num(0),
         after_hours_percentage |-> Num(0),
         avg_response_time_minutes |-> Num(0),
         avg_sentiment |-> Num(0),
         participation_trend |->
             Str(IF total_messages < 10 THEN "inactive"
                 ELSE IF total_messages < 50 THEN "low"
                 ELSE IF total_messages < 200 THEN "moderate"
                 ELSE "high")])

(* collect_slack_data on what get_user_metrics returned ({} on a failure).  *)
collect_slack_data(metrics) ==
    Map([message_count |-> Get(metrics, "total_messages", Num(0)),
         avg_response_time |-> Get(metrics, "avg_response_time_minutes", Num(0)),
         active_channels |-> Get(metrics, "active_channels", Num(0)),
         mentions_received |-> Get(metrics, "mentions_received", Num(0)),
         sentiment_score |-> Get(metrics, "avg_sentiment", Num(0)),
         after_hours_messages |-> Get(metrics, "after_hours_percentage", Num(0)),
         participation_trend |-> Get(metrics, "participation_trend", Str("stable"))])

(* CalendarIntegration._calculate_calendar_metrics over the 30 days the     *)
(* collector asks for, for meetings none of which was accepted or declined. *)
_calculate_calendar_metrics(total_hours, one_on_ones, pto_days) ==
    Map([total_meeting_hours |-> Num(100 * total_hours),
         declined_percentage |-> Num(0),
         one_on_one_count |-> Num(100 * one_on_ones),
         dropped_recurring |-> Num(0),
         participation_score |-> Num(0),
         fragmentation_score |-> Num((100 * total_hours) \div (30 * 8)),
         pto_days |-> Num(100 * pto_days)])

collect_calendar_data(metrics) ==
    Map([meeting_hours |-> Get(metrics, "total_meeting_hours", Num(0)),
         meetings_declined |-> Get(metrics, "declined_percentage", Num(0)),
         one_on_ones |-> Get(metrics, "one_on_one_count", Num(0)),
         recurring_meetings_dropped |-> Get(metrics, "dropped_recurring", Num(0)),
         meeting_participation |-> Get(metrics, "participation_score", Num(0)),
         calendar_fragmentation |-> Get(metrics, "fragmentation_score", Num(0)),
         pto_days |-> Get(metrics, "pto_days", Num(0))])

(* collect_productivity_data calls get_productivity_metrics(employee_id)    *)
(* without the two dates the method requires: the call raises and the       *)
(* except clause returns {}.                                                *)
collect_productivity_data == Map(EmptyFields)

(* What the Slack and the calendar integration return: nothing asked (the   *)
(* employee has no id there), {} after a failure, or the final metrics.     *)
SlackMetrics ==
    {[asked |-> FALSE, metrics |-> Map(EmptyFields)],
     [asked |-> TRUE, metrics |-> Map(EmptyFields)]}
    \cup {[asked |-> TRUE, metrics |-> _calculate_final_metrics(total)] :
             total \in {0, 10, 50, 200}}

CalendarMetrics ==
    {[asked |-> FALSE, metrics |-> Map(EmptyFields)],
     [asked |-> TRUE, metrics |-> Map(EmptyFields)]}
    \cup {[asked |-> TRUE, metrics |-> _calculate_calendar_metrics(hours, ones, 2)] :
             hours \in {0, 12, 36}, ones \in {0, 3}}

(* collect_employee_data for an employee without an e-mail address.         *)
collect_employee_data(slack, calendar) ==
    (IF slack.asked THEN "slack_metrics" :> collect_slack_data(slack.metrics)
     ELSE EmptyFields)
    @@ (IF calendar.asked
        THEN "calendar_metrics" :> collect_calendar_data(calendar.metrics)
        ELSE EmptyFields)
    @@ ("productivity_metrics" :> collect_productivity_data)

(* The records the collector can hand to the predictor and the scorer.      *)
CollectedRecords ==
    {collect_employee_data(slack, calendar) :
        slack \in SlackMetrics, calendar \in CalendarMetrics}

CollectEmployeeData ==
    /\ call = Idle
    /\ \E slack \in SlackMetrics, calendar \in CalendarMetrics :
          call' = [op |-> "collect_employee_data", slack |-> slack,
                   calendar |-> calendar,
                   result |-> collect_employee_data(slack, calendar)]
    /\ UNCHANGED <<model, scaler, threshold, use_openai, use_anthropic, settings, ai_scorers>>

(* The collected record goes to the predictor ...                           *)
PredictCollected ==
    /\ call.op = "collect_employee_data"
    /\ \E classifier \in IF model = "none"
                         THEN {c \in BatchClassifiers : c.kind = "raises"}
                         ELSE BatchClassifiers :
          call' = [op |-> "predict", input |-> call.result, model |-> model,
                   classifier |-> IF model = "none" THEN "unused" ELSE classifier.kind,
                   features |-> extract_features(call.result),
                   result |-> predict(model, call.result, classifier)]
    /\ UNCHANGED <<model, scaler, threshold, use_openai, use_anthropic, settings, ai_scorers>>

(* ... or to the scorer.                                                    *)
ScoreCollected ==
    /\ call.op = "collect_employee_data"
    /\ \E reply \in IF use_openai \/ use_anthropic
                    THEN BatchReplies
                    ELSE {[kind |-> "unused", answer |-> NotAnObject]} :
          call' = [op |-> "calculate_engagement_score", input |-> call.result,
                   reply |-> reply,
                   requests |-> Requests(use_openai, use_anthropic, call.result),
                   result |-> calculate_engagement_score(use_openai, use_anthropic,
                                                          call.result, reply)]
    /\ UNCHANGED <<model, scaler, threshold, use_openai, use_anthropic, settings, ai_scorers>>

CollectorNext ==
    \/ LoadModel
    \/ CollectEmployeeData
    \/ PredictCollected
    \/ ScoreCollected
    \/ Return

SpecCollector == Init /\ [][CollectorNext]_vars

-----------------------------------------------------------------------------
(* Properties of the risk predictor.                                        *)

Returned == call.op = "predict" /\ call.result.kind = "returned"

(* s >= t / 10^6, for a threshold t written as a decimal literal.           *)
AtLeast(s, t) == s.v > t \/ (s.v = t /\ s.r >= 0)

LevelMatches(s, level) ==
    /\ level \in {"critical", "high", "medium", "low"}
    /\ (level = "critical") <=> AtLeast(s, 750000)
    /\ (level = "high") <=> (AtLeast(s, 500000) /\ ~AtLeast(s, 750000))
    /\ (level = "medium") <=> (AtLeast(s, 250000) /\ ~AtLeast(s, 500000))
    /\ (level = "low") <=> ~AtLeast(s, 250000)

WindowMatches(s, window) ==
    /\ window \in {"0-30 days", "30-60 days", "60-90 days", "Low immediate risk"}
    /\ (window = "0-30 days") <=> AtLeast(s, 800000)
    /\ (window = "30-60 days") <=> (AtLeast(s, 600000) /\ ~AtLeast(s, 800000))
    /\ (window = "60-90 days") <=> (AtLeast(s, 400000) /\ ~AtLeast(s, 600000))
    /\ (window = "Low immediate risk") <=> ~AtLeast(s, 400000)

(* C1: _categorize_risk(s) is critical iff s >= 0.75, high iff              *)
(* 0.5 <= s < 0.75, medium iff 0.25 <= s < 0.5 and low iff s < 0.25, with   *)
(* exact boundaries, and the risk_level of every assessment predict         *)
(* returns, on the model path and on the fallback path, is that category of *)
(* the score it returns.                                                    *)
C1_RiskCategoryThresholds ==
    /\ call.op = "_categorize_risk" => LevelMatches(call.input, call.result)
    /\ Returned => LevelMatches(call.result.score, call.result.risk_level)

(* A classifier probability of exactly 0.75 is reported as critical.        *)
C1_Witness ==
    /\ Returned
    /\ call.result.path = "model"
    /\ call.result.score = Lit(750000)
    /\ call.result.risk_level = "critical"

(* C2: _estimate_departure_window(s) is "0-30 days" iff s >= 0.8,           *)
(* "30-60 days" iff 0.6 <= s < 0.8, "60-90 days" iff 0.4 <= s < 0.6 and     *)
(* "Low immediate risk" iff s < 0.4, with exact boundaries, and the         *)
(* departure_window of every assessment predict returns is that bucket of   *)
(* the score it returns.                                                    *)
C2_DepartureWindowThresholds ==
    /\ call.op = "_estimate_departure_window" =>
           WindowMatches(call.input, call.result)
    /\ Returned => WindowMatches(call.result.score, call.result.departure_window)

(* The rules sum to exactly 0.4 and the window is "60-90 days".             *)
C2_Witness ==
    /\ Returned
    /\ call.result.path = "fallback"
    /\ call.result.score = Lit(400000)
    /\ call.result.departure_window = "60-90 days"

(* The rules of the fallback path that fire on a record, read off the       *)
(* record.                                                                  *)
Has(rec, section, key) ==
    section \in DOMAIN rec /\ rec[section].k = "map" /\ key \in DOMAIN rec[section].f
Fires(rec, rule) ==
    CASE rule = "declining_communication" ->
             /\ Has(rec, "slack_metrics", "participation_trend")
             /\ rec["slack_metrics"].f["participation_trend"] = Str("declining")
      [] rule = "negative_sentiment" ->
             /\ Has(rec, "slack_metrics", "sentiment_score")
             /\ rec["slack_metrics"].f["sentiment_score"].n < -20
      [] rule = "burnout_risk" ->
             /\ Has(rec, "slack_metrics", "after_hours_messages")
             /\ rec["slack_metrics"].f["after_hours_messages"].n > 3000
      [] rule = "disengagement" ->
             /\ Has(rec, "calendar_metrics", "meetings_declined")
             /\ rec["calendar_metrics"].f["meetings_declined"].n > 3000
      [] rule = "performance_decline" ->
             /\ Has(rec, "productivity_metrics", "performance_trend")
             /\ rec["productivity_metrics"].f["performance_trend"] = Str("declining")

Rules == {"declining_communication", "negative_sentiment", "burnout_risk",
          "disengagement", "performance_decline"}
RuleWeight == [declining_communication |-> 300000, negative_sentiment |-> 200000,
               burnout_risk |-> 200000, disengagement |-> 150000,
               performance_decline |-> 150000]
RuleSeverity == [declining_communication |-> "high", negative_sentiment |-> "high",
                 burnout_risk |-> "high", disengagement |-> "medium",
                 performance_decline |-> "medium"]

RECURSIVE WeightSum(_)
WeightSum(rules) ==
    IF rules = {} THEN 0
    ELSE LET rule == CHOOSE x \in rules : TRUE
         IN RuleWeight[rule] + WeightSum(rules \ {rule})

Scenario070 == Scenario070Record

(* C3: on the fallback path the returned score is min(0.95, the sum of the  *)
(* weights of the rules that fire) (as a decimal; the double the code       *)
(* returns is within one rounding of it), a flag is in risk_factors iff its *)
(* rule fired, with the rule's severity, the confidence is exactly 0.65,    *)
(* and risk_level and departure_window are those of the returned score.  A  *)
(* declining trend with sentiment -0.3 and 35 % after hours and nothing     *)
(* else gives 0.70, high, "30-60 days" and exactly the three flags.         *)
C3_RuleBasedScore ==
    (Returned /\ call.result.path = "fallback") =>
        LET rec == call.input
            fired == {rule \in Rules : Fires(rec, rule)}
            sum == WeightSum(fired)
            res == call.result
        IN /\ res.score.v = IF sum > 950000 THEN 950000 ELSE sum
           /\ res.score.r \in {-1, 0, 1}
           /\ (res.score.r # 0) => res.score.v \in {450000, 700000}
           /\ DOMAIN res.risk_factors = fired
           /\ \A rule \in fired : res.risk_factors[rule] = RuleSeverity[rule]
           /\ res.confidence = R(65, 100)
           /\ LevelMatches(res.score, res.risk_level)
           /\ WindowMatches(res.score, res.departure_window)
           /\ (rec = Scenario070) =>
                 /\ res.score = Lit(700000)
                 /\ res.risk_level = "high"
                 /\ res.departure_window = "30-60 days"
                 /\ DOMAIN res.risk_factors =
                        {"declining_communication", "negative_sentiment", "burnout_risk"}

(* The scenario of the specification, scored without a model.               *)
C3_Witness ==
    /\ Returned
    /\ call.model = "none"
    /\ call.input = Scenario070
    /\ call.result.score = Lit(700000)

(* C4: predict never propagates an exception: for every record, malformed  *)
(* or not (a null or non-numeric value in a sub-section, a sub-section that *)
(* is not a mapping), with or without a model, it returns an assessment.    *)
C4_PredictNeverRaises ==
    call.op = "predict" => call.result.kind = "returned"

(* C5: for every record whose sub-sections are all empty or absent, predict *)
(* returns a result with confidence exactly 0.65 and risk_level low or      *)
(* medium, with no model loaded and with a model loaded.                    *)
C5_EmptyRecordConfidence065 ==
    (call.op = "predict" /\ call.input \in EmptyRecords) =>
        /\ call.result.kind = "returned"
        /\ call.result.confidence = R(65, 100)
        /\ call.result.risk_level \in {"low", "medium"}

(* C5, as the code has it: for every record whose sub-sections are all      *)
(* empty or absent predict returns; with no model loaded, or when the       *)
(* scaler or the classifier raises, the score is 0, the confidence exactly  *)
(* 0.65 and the level low; when the classifier answers, the score is its    *)
(* probability, the confidence is 0.5 + 0.45 * 3/34 (three of the 34        *)
(* features of such a record are non-zero: the department and position      *)
(* defaults and the isolation score) and the level is the category of the   *)
(* probability, which can be any of the four.                               *)
C5_EmptyRecordByPath ==
    (call.op = "predict" /\ call.input \in EmptyRecords) =>
        /\ call.result.kind = "returned"
        /\ (call.model = "none" \/ call.classifier = "raises") =>
              /\ call.result.path = "fallback"
              /\ call.result.score = Lit(0)
              /\ call.result.confidence = R(65, 100)
              /\ call.result.risk_level = "low"
        /\ (call.model = "loaded" /\ call.classifier = "ok") =>
              /\ call.result.path = "model"
              /\ call.result.confidence = RAdd(R(5, 10), RMul(R(3, 34), R(45, 100)))
              /\ call.result.confidence # R(65, 100)
              /\ LevelMatches(call.result.score, call.result.risk_level)

(* An empty record, a loaded classifier that puts it at 0.75: critical.     *)
C5_Witness ==
    /\ call.op = "predict"
    /\ call.input \in EmptyRecords
    /\ call.model = "loaded"
    /\ call.result.kind = "returned"
    /\ call.result.path = "model"
    /\ call.result.risk_level = "critical"

(* The flags _generate_interventions has an intervention for.               *)
FlagsWithIntervention ==
    {"declining_communication", "burnout_risk", "negative_sentiment",
     "performance_decline", "meeting_avoidance"}

IsGeneric(intervention) ==
    intervention.action = "Retention Discussion" /\ intervention.priority = "critical"

(* C6: in every assessment predict returns, a score strictly above 0.7      *)
(* comes with a non-empty suggested_interventions; when no flag has an      *)
(* intervention of its own the list is the single generic "Retention        *)
(* Discussion" of priority critical; and the generic intervention is in the *)
(* list only when the score is above 0.7 and no flag has an intervention.   *)
C6_RetentionDiscussion ==
    Returned =>
        LET res == call.result
            list == res.suggested_interventions
            high == res.score.v > 700000 \/ (res.score.v = 700000 /\ res.score.r > 0)
            specific == DOMAIN res.risk_factors \cap FlagsWithIntervention # {}
            generic == \E i \in DOMAIN list : list[i].action = "Retention Discussion"
        IN /\ high => list # << >>
           /\ (high /\ ~specific) => (Len(list) = 1 /\ IsGeneric(list[1]))
           /\ generic => (high /\ ~specific)
           /\ specific => list # << >>
           /\ (~high /\ ~specific) => list = << >>

(* A classifier probability just above 0.7 on a record none of whose flags  *)
(* has an intervention.                                                     *)
C6_Witness ==
    /\ Returned
    /\ call.result.path = "model"
    /\ call.result.score = Lit(700001)
    /\ DOMAIN call.result.risk_factors \cap FlagsWithIntervention = {}
    /\ Len(call.result.suggested_interventions) = 1
    /\ IsGeneric(call.result.suggested_interventions[1])

-----------------------------------------------------------------------------
(* Properties of the feature extractor.                                     *)

Field(section, key, div) == [section |-> section, key |-> key, div |-> div]

(* The field of the record each named feature is read from, and what the    *)
(* field is divided by.                                                     *)
NumericFeature ==
    [tenure_years |-> Field("basic_info", "tenure_days", 365),
     slack_messages |-> Field("slack_metrics", "message_count", 100),
     slack_response_time |-> Field("slack_metrics", "avg_response_time", 60),
     slack_channels |-> Field("slack_metrics", "active_channels", 10),
     slack_sentiment |-> Field("slack_metrics", "sentiment_score", 1),
     slack_after_hours |-> Field("slack_metrics", "after_hours_messages", 100),
     email_sent |-> Field("email_metrics", "sent_count", 100),
     email_received |-> Field("email_metrics", "received_count", 100),
     email_response_time |-> Field("email_metrics", "avg_response_time", 24),
     email_unread |-> Field("email_metrics", "unread_percentage", 100),
     email_after_hours |-> Field("email_metrics", "after_hours_emails", 100),
     email_sentiment |-> Field("email_metrics", "email_sentiment", 1),
     email_external |-> Field("email_metrics", "external_communication", 100),
     meeting_hours |-> Field("calendar_metrics", "meeting_hours", 40),
     meetings_declined |-> Field("calendar_metrics", "meetings_declined", 100),
     one_on_ones |-> Field("calendar_metrics", "one_on_ones", 10),
     recurring_dropped |-> Field("calendar_metrics", "recurring_meetings_dropped", 1),
     meeting_participation |-> Field("calendar_metrics", "meeting_participation", 1),
     calendar_fragmentation |-> Field("calendar_metrics", "calendar_fragmentation", 1),
     pto_days |-> Field("calendar_metrics", "pto_days", 20),
     task_completion |-> Field("productivity_metrics", "task_completion_rate", 1),
     project_involvement |-> Field("productivity_metrics", "project_involvement", 5),
     code_commits |-> Field("productivity_metrics", "code_commits", 50),
     ticket_resolution |-> Field("productivity_metrics", "ticket_resolution_time", 48),
     skill_utilization |-> Field("productivity_metrics", "skill_utilization", 1),
     workload_balance |-> Field("productivity_metrics", "workload_balance", 1)]

TrendFeature ==
    [slack_trend |-> Field("slack_metrics", "participation_trend", 1),
     performance_trend |-> Field("productivity_metrics", "performance_trend", 1)]

DerivedFeatures == {"comm_balance", "engagement", "burnout_risk", "isolation"}

(* The value the named feature must have for the record.                    *)
FeatureIs(rec, name, feature) ==
    IF name \in DOMAIN NumericFeature
    THEN LET fld == NumericFeature[name]
         IN feature.q = IF Has(rec, fld.section, fld.key)
                        THEN R(rec[fld.section].f[fld.key].n, 100 * fld.div)
                        ELSE RInt(0)
    ELSE IF name \in DOMAIN TrendFeature
    THEN LET fld == TrendFeature[name]
         IN feature.q = IF ~Has(rec, fld.section, fld.key) THEN RInt(0)
                        ELSE IF rec[fld.section].f[fld.key] = Str("declining")
                        THEN RInt(-1)
                        ELSE IF rec[fld.section].f[fld.key] = Str("improving")
                        THEN RInt(1)
                        ELSE RInt(0)
    ELSE IF name \in {"department", "position_level"}
    THEN RLt(RInt(0), feature.q) /\ RLt(feature.q, RInt(1))
    ELSE name \in DerivedFeatures

(* C7: extract_features returns, for every record with any of the five      *)
(* sub-sections or any of their fields absent, a vector of exactly 34       *)
(* numbers, in the order of the 34 names of get_feature_importance: entry i *)
(* is the scaled field the i-th name stands for, 0 when that numeric field  *)
(* is absent and 0 when that trend is absent, the last four being the       *)
(* derived features; and the vector is a function of the record alone.      *)
C7_ExtractFeaturesTotal ==
    call.op = "extract_features" =>
        LET rec == call.input
            res == call.result
        IN /\ res.kind = "ok"
           /\ Len(res.features) = 34
           /\ Len(feature_names) = 34
           /\ \A i \in 1..34 :
                 /\ res.features[i].k = "num"
                 /\ FeatureIs(rec, feature_names[i], res.features[i])
           /\ \A i \in 31..34 : feature_names[i] \in DerivedFeatures
           /\ res = extract_features(rec)

(* A record without messaging metrics and with every email field: the       *)
(* messaging entries are 0, the email entries the scaled fields.            *)
C7_Witness ==
    /\ call.op = "extract_features"
    /\ "slack_metrics" \notin DOMAIN call.input
    /\ "email_metrics" \in DOMAIN call.input
    /\ call.input["email_metrics"] = Map(FullEmail)
    /\ call.result.kind = "ok"
    /\ Len(call.result.features) = 34
    /\ call.result.features[4] = FNum(RInt(0))
    /\ call.result.features[9] = FNum(RInt(0))
    /\ call.result.features[10] = FNum(R(2, 5))

-----------------------------------------------------------------------------
(* Properties of the engagement scorer.                                     *)

Scored == call.op = "calculate_engagement_score"

(* x >= n / 100                                                             *)
AtLeastHundredths(x, n) == x.n * 100 >= n * x.d

EngagementLevelMatches(x, level) ==
    /\ level \in {"highly_engaged", "engaged", "neutral", "at_risk", "disengaged"}
    /\ (level = "highly_engaged") <=> AtLeastHundredths(x, 80)
    /\ (level = "engaged") <=>
           (AtLeastHundredths(x, 65) /\ ~AtLeastHundredths(x, 80))
    /\ (level = "neutral") <=>
           (AtLeastHundredths(x, 50) /\ ~AtLeastHundredths(x, 65))
    /\ (level = "at_risk") <=>
           (AtLeastHundredths(x, 35) /\ ~AtLeastHundredths(x, 50))
    /\ (level = "disengaged") <=> ~AtLeastHundredths(x, 35)

(* C8: _determine_engagement_level(x) is highly_engaged iff x >= 0.8,       *)
(* engaged iff 0.65 <= x < 0.8, neutral iff 0.5 <= x < 0.65, at_risk iff    *)
(* 0.35 <= x < 0.5 and disengaged iff x < 0.35, and the engagement_level of *)
(* every assessment calculate_engagement_score returns is that level of the *)
(* engagement_score it reports.                                             *)
C8_EngagementLevelThresholds ==
    /\ call.op = "_determine_engagement_level" =>
           EngagementLevelMatches(call.input, call.result)
    /\ Scored => EngagementLevelMatches(call.result.engagement_score,
                                        call.result.engagement_level)

(* A computed assessment whose overall score is exactly 0.65: engaged.      *)
C8_Witness ==
    /\ Scored
    /\ call.result.source = "computed"
    /\ call.result.engagement_score = R(65, 100)
    /\ call.result.engagement_level = "engaged"

IsInsufficientDataMarker(indicator) ==
    indicator \in {"Insufficient data",
                   "Insufficient data - enable integrations for better insights"}

(* C9: for a fully empty record calculate_engagement_score returns          *)
(* engagement_score 0.5, level neutral, confidence 0.1 and risk_indicators  *)
(* holding an "insufficient data" marker.                                   *)
C9_EmptyRecordDefaultAssessment ==
    (Scored /\ DOMAIN call.input = {}) =>
        /\ call.result.engagement_score = R(1, 2)
        /\ call.result.engagement_level = "neutral"
        /\ call.result.confidence = FNum(R(1, 10))
        /\ \E i \in DOMAIN call.result.risk_indicators :
               IsInsufficientDataMarker(call.result.risk_indicators[i])

(* The answer is a JSON object with the five keys of an analysis and a      *)
(* numeric engagement_score.                                                *)
ExpectedShape(answer) ==
    /\ answer.k = "dict"
    /\ answer.has = AnalysisKeys
    /\ answer.engagement_score.k = "num"

RemoteFailed(reply) ==
    \/ reply.kind \in RemoteFailures
    \/ reply.kind = "answered" /\ ~ExpectedShape(reply.answer)

(* C10: with a remote provider configured, when the remote call fails (a    *)
(* network error or timeout, a status other than 200, a body that is not    *)
(* JSON, JSON that is not of the expected shape) calculate_engagement_score *)
(* returns exactly the assessment the rule-based path gives the record.     *)
C10_RemoteFailureFallsBack ==
    (Scored /\ (use_openai \/ use_anthropic) /\ RemoteFailed(call.reply)) =>
        call.result = calculate_engagement_score(FALSE, FALSE, call.input, call.reply)

(* The metrics whose values are ratios in [0, 1]; sentiment is in [-1, 1];  *)
(* every other metric is a count or a number of hours, not negative.        *)
RatioMetrics == {"on_time_percentage", "meeting_load_score", "declined_percentage",
                 "velocity_score"}

ValueInRange(key, v) ==
    v.k = "num" =>
        IF key = "sentiment_score" THEN v.n >= -100 /\ v.n <= 100
        ELSE IF key \in RatioMetrics THEN v.n >= 0 /\ v.n <= 100
        ELSE v.n >= 0

RecordInRange(rec) ==
    \A name \in DOMAIN rec :
        \A key \in DOMAIN rec[name].f : ValueInRange(key, rec[name].f[key])

InUnit(x) == RLe(RInt(0), x) /\ RLe(x, RInt(1))

(* C11: every assessment calculate_engagement_score returns for a record    *)
(* whose counts and hours are not negative, whose sentiment is in [-1, 1]   *)
(* and whose ratios are in [0, 1] has engagement_score and each of the four *)
(* component scores in [0, 1], whether the base score came from the remote  *)
(* model's answer or from the rule-based analysis.                          *)
C11_ScoresInUnitInterval ==
    (Scored /\ RecordInRange(call.input)) =>
        /\ InUnit(call.result.engagement_score)
        /\ \A c \in {"communication", "collaboration", "productivity", "wellbeing"} :
               InUnit(call.result.components[c])

-----------------------------------------------------------------------------
(* Properties of batch scoring.                                             *)

(* C12: a batch of N records gives exactly N assessments, the i-th that of  *)
(* the i-th record and (batch_calculate) carrying its employee id, in       *)
(* whatever order the computations complete; a failure on one record         *)
(* leaves the assessments of the others as they are.                        *)
C12_BatchScoring ==
    /\ call.op = "batch_predict" =>
          /\ call.result.kind = "returned"
          /\ DOMAIN call.result.value = DOMAIN call.input
          /\ \A i \in DOMAIN call.input :
                LET single == predict(call.model, call.input[i], call.classifiers[i])
                IN single.kind = "returned" => call.result.value[i] = single
    /\ (call.op = "batch_calculate" /\ "result" \in DOMAIN call) =>
          /\ call.result.kind = "returned"
          /\ DOMAIN call.result.value = DOMAIN call.input
          /\ \A i \in DOMAIN call.input :
                /\ call.result.value[i].employee_id = EmployeeId(call.input[i])
                /\ call.result.value[i] =
                       WithId(call.input[i],
                              calculate_engagement_score(use_openai, use_anthropic,
                                                         call.input[i], call.replies[i]))

-----------------------------------------------------------------------------
(* Properties of model loading and of the two paths of predict.             *)

(* The artifact could not be loaded: it is missing, unreadable or lacks an  *)
(* entry.                                                                   *)
ArtifactNotLoaded(outcome) == outcome # "loaded"

(* C13: when the artifact cannot be loaded (missing, unreadable, without    *)
(* its 'model' or 'scaler' entry) load_model returns and leaves the         *)
(* predictor without a classifier, and a predict made by a predictor        *)
(* without a classifier takes the rule-based path, confidence 0.65.  (The   *)
(* model is changed by load_model alone, so these are the subsequent        *)
(* predicts.)                                                               *)
C13_LoadFailureFallsBack ==
    /\ (call.op = "load_model" /\ ArtifactNotLoaded(call.outcome)) =>
          /\ call.result.kind = "returned"
          /\ model = "none"
    /\ (Returned /\ call.model = "none") =>
          /\ call.result.path = "fallback"
          /\ call.result.confidence = R(65, 100)

(* C14: for every record, the flags (names and severities) the model path   *)
(* reports are the flags the rule-based path reports for the same record.   *)
C14_SameFlagsOnBothPaths ==
    (Returned /\ call.result.path = "model"
       /\ _rule_based_prediction(call.input).kind = "returned") =>
        call.result.risk_factors =
            _rule_based_prediction(call.input).risk_factors

(* min(0.95, 0.5 + 0.45 * k / 34)                                           *)
ConfidenceOf(k) == RMin(R(95, 100), RAdd(R(1, 2), RMul(R(45, 100), R(k, 34))))

(* C15: the confidence of the model path is min(0.95, 0.5 + 0.45 * k / 34)  *)
(* for k the number of non-zero entries of the 34-entry feature vector: it  *)
(* lies in [0.5, 0.95], does not decrease as k grows, is 0.5 only when      *)
(* every entry is zero, and the classifier's probability has no part in it. *)
C15_ModelPathConfidence ==
    /\ (Returned /\ call.result.path = "model") =>
          LET features == extract_features(call.input).features
          IN /\ Len(features) = 34
             /\ call.result.confidence = ConfidenceOf(NonZero(features))
    /\ call.op = "_calculate_confidence" =>
          LET k == NonZero(call.input)
          IN /\ Len(call.input) = 34
             /\ call.result = ConfidenceOf(k)
             /\ RLe(R(1, 2), call.result) /\ RLe(call.result, R(95, 100))
             /\ call.result = R(1, 2) => k = 0
             /\ \A features \in ConfidenceVectors :
                   NonZero(features) <= k =>
                       RLe(_calculate_confidence(features), call.result)

(* A model-path predict whose confidence lies strictly between the ends,    *)
(* with a high probability.                                                 *)
C15_Witness ==
    /\ Returned /\ call.result.path = "model"
    /\ call.result.score = Lit(800000)
    /\ RLt(R(1, 2), call.result.confidence)
    /\ RLt(call.result.confidence, R(95, 100))

(* The flag has an intervention of its own in the list generated from the   *)
(* flags: one that is not generated from the other flags alone.             *)
Contributes(flag, risk_factors, probability) ==
    LET with == _generate_interventions(risk_factors, probability)
        others == Restrict(risk_factors, DOMAIN risk_factors \ {flag})
        without == _generate_interventions(others, probability)
    IN \E i \in DOMAIN with : \A j \in DOMAIN without : with[i] # without[j]

(* C16: every flag either path raises contributes at least one intervention *)
(* to the assessment's list whenever it is present.                         *)
C16_EveryFlagHasIntervention ==
    Returned =>
        /\ call.result.suggested_interventions =
               _generate_interventions(call.result.risk_factors, call.result.score)
        /\ \A flag \in DOMAIN call.result.risk_factors :
               Contributes(flag, call.result.risk_factors, call.result.score)

(* The actions in the order _generate_interventions appends them.           *)
GenerationOrder ==
    << "Schedule 1:1 Check-in", "Workload Review", "Promote Work-Life Balance",
       "Employee Wellness Check", "Performance Support Plan",
       "Meeting Optimization", "Retention Discussion" >>

Generated(action) == CHOOSE n \in DOMAIN GenerationOrder : GenerationOrder[n] = action

(* C17: the list of interventions holds no two interventions with the same  *)
(* action and is ordered by priority rank, critical < high < medium < low,  *)
(* interventions of equal priority staying in generation order.             *)
C17_InterventionsOrdered ==
    Returned =>
        LET list == call.result.suggested_interventions
        IN /\ \A i \in DOMAIN list :
                 /\ list[i].priority \in {"critical", "high", "medium", "low"}
                 /\ \E n \in DOMAIN GenerationOrder : GenerationOrder[n] = list[i].action
           /\ \A i, j \in DOMAIN list :
                 i < j =>
                    /\ list[i].action # list[j].action
                    /\ PriorityRank(list[i].priority) <= PriorityRank(list[j].priority)
                    /\ list[i].priority = list[j].priority =>
                           Generated(list[i].action) < Generated(list[j].action)

(* A list the sort reordered: a medium intervention generated before a high *)
(* one, and two high ones.                                                  *)
C17_Witness ==
    /\ Returned
    /\ LET list == call.result.suggested_interventions
       IN /\ Len(list) >= 4
          /\ \E i, j \in DOMAIN list :
                /\ i < j
                /\ Generated(list[i].action) > Generated(list[j].action)
          /\ \E i, j \in DOMAIN list :
                i < j /\ list[i].priority = list[j].priority

(* A step of the model path raises for the record: extract_features raises, *)
(* scaler.transform or predict_proba raises (on a vector that is not        *)
(* numeric, or of itself), or _identify_risk_factors raises.                *)
ModelPathRaises(employee_data, classifier) ==
    LET extracted == extract_features(employee_data)
    IN \/ extracted.kind = "raised"
       \/ \E i \in DOMAIN extracted.features : extracted.features[i].k # "num"
       \/ classifier = "raises"
       \/ IdentifyRaises(employee_data)

-----------------------------------------------------------------------------
(* Properties of the engagement score.                                      *)

(* The assessment was computed from an analysis, not the default one.       *)
Computed == Scored /\ call.result.source = "computed"

(* The base score of an analysis: its engagement_score, 0.5 if it has none. *)
BaseOf(ai_analysis) ==
    IF "engagement_score" \in ai_analysis.has
    THEN ai_analysis.engagement_score.q ELSE R(1, 2)

(* 0.7 * (0.25 * comm + 0.25 * collab + 0.25 * prod + 0.25 * well)          *)
(*   + 0.3 * base                                                           *)
Blend(metrics, base) ==
    RAdd(RMul(R(7, 40), RSum(<< _score_communication(metrics.communication),
                                _score_collaboration(metrics.collaboration),
                                _score_productivity(metrics.productivity),
                                _score_wellbeing(metrics.wellbeing) >>)),
         RMul(R(3, 10), base))

(* The analyses an assessment of the same metrics could be blended with.    *)
UsableAnalyses(metrics) ==
    {a \in Answers \cup {_get_fallback_analysis(metrics)} :
        ~AnalysisRaises(a) /\ InUnit(BaseOf(a))}

BlendedWith(metrics, ai_analysis, result) ==
    /\ result.engagement_score = Round2(Blend(metrics, BaseOf(ai_analysis)))
    /\ InUnit(BaseOf(ai_analysis)) =>
          \A other \in UsableAnalyses(metrics) :
             RLe(RAbs(RSub(_calculate_component_scores(metrics, other).overall_score,
                           result.engagement_score)),
                 R(3, 10))

(* C19: the overall engagement score is 0.7 * (0.25 * communication +       *)
(* 0.25 * collaboration + 0.25 * productivity + 0.25 * wellbeing) + 0.3 *   *)
(* base, reported to two decimals, base being the engagement_score of the   *)
(* analysis (0.5 if it has none); for the same metrics, the overall scores  *)
(* of two analyses with base scores in [0, 1] differ by at most 0.3.        *)
C19_OverallScoreBlend ==
    Computed =>
        BlendedWith(_prepare_metrics(call.input),
                    _get_ai_analysis(use_openai, use_anthropic,
                                     _prepare_metrics(call.input), call.reply),
                    call.result)

(* A remote answer with base 0.9 blended with components that are not all   *)
(* equal to it.                                                             *)
C19_Witness ==
    /\ Computed
    /\ call.reply.kind = "answered"
    /\ "engagement_score" \in call.reply.answer.has
    /\ call.reply.answer.engagement_score = FNum(R(90, 100))
    /\ call.result.engagement_score # R(90, 100)
    /\ call.result.components.communication # call.result.components.wellbeing

(* The call took its analysis from _get_fallback_analysis.                  *)
UsedFallback ==
    /\ Scored
    /\ ~PrepareRaises(call.input)
    /\ ~MetricsRaise(_prepare_metrics(call.input))
    /\ (use_openai \/ use_anthropic) => call.reply.kind \in RemoteFailures

(* The number of metric groups that have data.                              *)
GroupsWithData(metrics) ==
    Cardinality({g \in {"communication", "collaboration", "wellbeing", "productivity"} :
                    DOMAIN metrics[g] # {}})

(* A score reached from 0.5 by one move of magnitude 0.1 to 0.3 for each of *)
(* n groups, then clamped to [0, 1].                                        *)
MovedFromHalf(score, n) ==
    /\ InUnit(score)
    /\ n = 0 => score = R(1, 2)
    /\ n = 1 => RLe(R(1, 10), RAbs(RSub(score, R(1, 2))))
    /\ RLe(RAbs(RSub(score, R(1, 2))), RMul(RInt(n), R(3, 10)))

(* C20: the engagement_score of _get_fallback_analysis is 0.5 moved up or   *)
(* down, by each metric group that has data, by an amount of magnitude      *)
(* between 0.1 and 0.3, and clamped to [0, 1].                              *)
C20_FallbackMovesFromHalf ==
    UsedFallback =>
        MovedFromHalf(_get_fallback_analysis(_prepare_metrics(call.input)).engagement_score.q,
                      GroupsWithData(_prepare_metrics(call.input)))

-----------------------------------------------------------------------------
(* Properties of the recommendations.                                       *)

(* The recommendations the analysis of the call supplied.                   *)
Supplied ==
    AGet(_get_ai_analysis(use_openai, use_anthropic,
                          _prepare_metrics(call.input), call.reply),
         "recommendations", << >>)

FirstIndex(seq, x) == CHOOSE i \in DOMAIN seq : seq[i] = x /\ \A j \in 1..(i - 1) : seq[j] # x

InSeq(seq, x) == \E i \in DOMAIN seq : seq[i] = x

(* recs: at most 5, no string twice, the supplied ones first and in the     *)
(* order of their first occurrence, none of them skipped.                   *)
RecommendationsOrdered(recs, supplied) ==
    /\ Len(recs) <= 5
    /\ \A i, j \in DOMAIN recs :
          i < j =>
             /\ recs[i] # recs[j]
             /\ InSeq(supplied, recs[j]) =>
                   /\ InSeq(supplied, recs[i])
                   /\ FirstIndex(supplied, recs[i]) < FirstIndex(supplied, recs[j])
    /\ \A k \in DOMAIN supplied :
          ~InSeq(recs, supplied[k]) =>
             /\ Len(recs) = 5
             /\ \A i \in DOMAIN recs :
                   /\ InSeq(supplied, recs[i])
                   /\ FirstIndex(supplied, recs[i]) < k

(* C21: the list _generate_recommendations returns has at most 5 entries,   *)
(* holds no string twice, and lists every retained recommendation of the    *)
(* analysis before any score-based one, in first-occurrence order.          *)
C21_RecommendationsDedupCap ==
    Computed => RecommendationsOrdered(call.result.recommendations, Supplied)

(* The analysis supplied a recommendation twice and a score-based one was   *)
(* added after it.                                                          *)
C21_Witness ==
    /\ Computed
    /\ \E i, j \in DOMAIN Supplied : i < j /\ Supplied[i] = Supplied[j]
    /\ \E i \in DOMAIN call.result.recommendations :
          ~InSeq(Supplied, call.result.recommendations[i])

(* The score-based recommendations, in the order they are appended.         *)
Templated ==
    << [dimension |-> "communication",
        text |-> "Increase team communication and collaboration"],
       [dimension |-> "wellbeing",
        text |-> "Review work-life balance and meeting load"],
       [dimension |-> "productivity",
        text |-> "Assess workload distribution and priorities"],
       [dimension |-> "collaboration",
        text |-> "Schedule regular 1-on-1s and team activities"] >>

Low(result, dimension) == RLt(result.components[dimension], R(1, 2))

(* C22: in every assessment calculate_engagement_score returns, each of the *)
(* four dimensions whose reported component score is below 0.5 has its      *)
(* templated recommendation in the recommendations list.                    *)
C22_LowComponentRecommended ==
    Scored =>
        \A t \in DOMAIN Templated :
            Low(call.result, Templated[t].dimension) =>
                InSeq(call.result.recommendations, Templated[t].text)

(* C22, amended: the templated recommendation of a dimension below 0.5 is   *)
(* in the list unless the list is full: five entries, each supplied by the  *)
(* analysis or the template of a low dimension appended earlier.            *)
C22_LowComponentRecommendedUnlessFull ==
    Scored =>
        \A t \in DOMAIN Templated :
            (/\ Low(call.result, Templated[t].dimension)
             /\ ~InSeq(call.result.recommendations, Templated[t].text)) =>
                /\ Len(call.result.recommendations) = 5
                /\ \A i \in DOMAIN call.result.recommendations :
                      \/ InSeq(Supplied, call.result.recommendations[i])
                      \/ \E u \in 1..(t - 1) :
                            /\ Templated[u].text = call.result.recommendations[i]
                            /\ Low(call.result, Templated[u].dimension)

(* A full list: the template of one low dimension is in it, that of         *)
(* another low dimension was cut off.                                       *)
C22_Witness ==
    /\ Computed
    /\ \E t, u \in DOMAIN Templated :
          /\ Low(call.result, Templated[t].dimension)
          /\ Low(call.result, Templated[u].dimension)
          /\ InSeq(call.result.recommendations, Templated[t].text)
          /\ ~InSeq(call.result.recommendations, Templated[u].text)

-----------------------------------------------------------------------------
(* Properties of the choice of the analysis source.                         *)

(* C23: one call of calculate_engagement_score issues at most one remote    *)
(* request: to OpenAI if an OpenAI key is configured, otherwise to          *)
(* Anthropic if an Anthropic key is configured, otherwise none, the         *)
(* rule-based analysis being used; a failed request is followed by no       *)
(* retry and by no request to the other provider.                           *)
C23_OneSourceFirstAvailable ==
    Scored =>
        /\ Len(call.requests) <= 1
        /\ call.requests \in {<< >>, <<"openai">>, <<"anthropic">>}
        /\ call.requests = <<"openai">> => use_openai
        /\ call.requests = <<"anthropic">> => (~use_openai /\ use_anthropic)
        /\ (use_openai /\ ~PrepareRaises(call.input)) => call.requests = <<"openai">>
        /\ (~use_openai /\ use_anthropic /\ ~PrepareRaises(call.input)) =>
               call.requests = <<"anthropic">>
        /\ (~use_openai /\ ~use_anthropic) =>
               /\ call.requests = << >>
               /\ ~PrepareRaises(call.input) =>
                     call.result =
                         ScoreMetrics(FALSE, FALSE, _prepare_metrics(call.input),
                                      [kind |-> "unused", answer |-> NotAnObject])
        /\ (call.requests # << >> /\ call.reply.kind \in RemoteFailures) =>
               /\ Len(call.requests) = 1
               /\ call.result =
                      ScoreMetrics(FALSE, FALSE, _prepare_metrics(call.input),
                                   [kind |-> "unused", answer |-> NotAnObject])

(* Both keys are configured, the request to OpenAI failed, and the          *)
(* assessment was computed from the rule-based analysis.                    *)
C23_Witness ==
    /\ Computed
    /\ use_openai /\ use_anthropic
    /\ call.reply.kind \in RemoteFailures
    /\ call.requests = <<"openai">>
    /\ call.result.recommendations # << >>

-----------------------------------------------------------------------------
(* Properties of the derived features.                                      *)

(* The record with the two counts swapped.                                  *)
Swapped(data) ==
    [slack_metrics |-> Map([message_count |-> data.email_metrics.f.sent_count]),
     email_metrics |-> Map([sent_count |-> data.slack_metrics.f.message_count])]

(* |m - e| / max(m + e, 1) for counts m and e.                              *)
Imbalance(m, e) ==
    IF m + e = 0 THEN RInt(0)
    ELSE IF m >= e THEN R(m - e, m + e) ELSE R(e - m, m + e)

(* C24: communication_balance(m, e) = |m - e| / max(m + e, 1) over message  *)
(* and sent-email counts m, e >= 0 is symmetric in m and e, lies in [0, 1]  *)
(* and is 0 exactly when m = e, m = e = 0 included.                         *)
C24_CommunicationBalance ==
    call.op = "_calculate_derived_features" =>
        LET m == call.input.slack_metrics.f.message_count.n \div 100
            e == call.input.email_metrics.f.sent_count.n \div 100
            comm_balance == call.result[1].q
        IN /\ comm_balance = Imbalance(m, e)
           /\ comm_balance = _calculate_derived_features(Swapped(call.input))[1].q
           /\ InUnit(comm_balance)
           /\ (comm_balance = RInt(0)) <=> (m = e)

(* Fewer messages than e-mails: the difference is negative before abs.      *)
C24_Witness ==
    /\ call.op = "_calculate_derived_features"
    /\ call.input.slack_metrics.f.message_count.n = 100
    /\ call.input.email_metrics.f.sent_count.n = 300
    /\ call.result[1].q = R(1, 2)

-----------------------------------------------------------------------------
(* Properties of the predictor's state.                                     *)

(* The classifier outcomes a call of predict can have met.                  *)
Met(kind) == {c \in Classifiers \cup BatchClassifiers :
                 kind = "unused" \/ c.kind = kind}

(* C25: predict and batch_predict leave the model, the scaler and the       *)
(* threshold as they were and the records as they were given, on either     *)
(* path and when the model path fails; the outcome for a record is that of  *)
(* predict on the record under the model in place, whatever was scored      *)
(* before it or with it.                                                    *)
C25_PredictReadOnly ==
    [][(call'.op \in {"predict", "batch_predict"}) =>
          /\ model' = model /\ scaler' = scaler /\ threshold' = threshold
          /\ call'.model = model
          /\ call'.op = "predict" =>
                /\ call'.input \in PredictRecords
                /\ \E c \in Met(call'.classifier) :
                      call'.result = predict(model, call'.input, c)
          /\ call'.op = "batch_predict" =>
                /\ call'.input \in Batches(BatchPredictRecords)
                /\ call'.result.kind = "returned" =>
                      \A i \in DOMAIN call'.input :
                          call'.result.value[i] =
                              predict(model, call'.input[i], call'.classifiers[i])]_vars

(* A batch of two under a loaded model: the classifier raised for the       *)
(* first record and answered for the second.                                *)
C25_Witness ==
    /\ call.op = "batch_predict"
    /\ model = "loaded" /\ scaler = "fitted"
    /\ Len(call.input) = 2
    /\ call.classifiers[1].kind = "raises"
    /\ call.classifiers[2].kind = "ok"
    /\ call.result.kind = "returned"
    /\ call.result.value[1].path = "fallback"
    /\ call.result.value[2].path = "model"

-----------------------------------------------------------------------------
(* Properties of the rule-based analysis.                                   *)

(* The analysis carries the neutral default: 0.5 with the recommendation    *)
(* that tells of insufficient data.                                         *)
NeutralDefault(ai_analysis) ==
    /\ ai_analysis.engagement_score.q = R(1, 2)
    /\ InSeq(ai_analysis.recommendations,
             "Insufficient data - enable integrations for better insights")

(* C26: _get_fallback_analysis applies the neutral default (score 0.5 with  *)
(* the 'Insufficient data' recommendation) only when none of the four       *)
(* metric groups has data; with data in at least one group the score is the *)
(* weighted sum of the groups present, and no such recommendation is made.  *)
C26_NeutralDefaultOnlyWithoutData ==
    UsedFallback =>
        (NeutralDefault(_get_fallback_analysis(_prepare_metrics(call.input)))
            <=> GroupsWithData(_prepare_metrics(call.input)) = 0)

-----------------------------------------------------------------------------
(* Properties of the collected records.                                     *)

TrendEnum == {"declining", "stable", "improving"}

(* C27: every participation_trend the Slack integration places in a record  *)
(* through collect_slack_data is one of declining, stable, improving, the   *)
(* values the trend encoding and the declining-communication rule consume.  *)
C27_TrendInEnum ==
    (call.op = "collect_employee_data" /\ "slack_metrics" \in DOMAIN call.result) =>
        call.result.slack_metrics.f.participation_trend.s \in TrendEnum

(* Two collected records that differ in nothing but the named section, and  *)
(* there in one of the named fields.                                        *)
DifferOnlyIn(r1, r2, section, fields) ==
    /\ DOMAIN r1 = DOMAIN r2
    /\ section \in DOMAIN r1
    /\ \A name \in DOMAIN r1 \ {section} : r1[name] = r2[name]
    /\ \E key \in fields :
          Get(r1[section], key, None) # Get(r2[section], key, None)

CollaborationScore(rec) == _score_collaboration(_prepare_metrics(rec).collaboration)

ProductivityScore(rec) == _score_productivity(_prepare_metrics(rec).productivity)

(* C28: the scorer reads the fields the collector writes: there are two     *)
(* collected records that differ only in calendar meeting_hours or          *)
(* one_on_ones and have different collaboration scores, and two that differ *)
(* only in productivity values and have different productivity scores.      *)
C28_ScoresDependOnCollected ==
    (Scored /\ call.input \in CollectedRecords) =>
        /\ \E r1, r2 \in CollectedRecords :
              /\ DifferOnlyIn(r1, r2, "calendar_metrics", {"meeting_hours", "one_on_ones"})
              /\ CollaborationScore(r1) # CollaborationScore(r2)
        /\ \E r1, r2 \in CollectedRecords :
              /\ DifferOnlyIn(r1, r2, "productivity_metrics",
                              {"task_completion_rate", "project_involvement",
                               "code_commits", "ticket_resolution_time",
                               "performance_trend", "skill_utilization",
                               "workload_balance"})
              /\ ProductivityScore(r1) # ProductivityScore(r2)

-----------------------------------------------------------------------------
(* Properties of the retention alert.                                       *)

(* C29: for every risk score, the departure window a Slack retention alert  *)
(* shows is the window the predictor reports for that score.                *)
C29_AlertWindowMatchesPredictor ==
    call.op = "_get_departure_window" =>
        call.result = _estimate_departure_window(call.input)

-----------------------------------------------------------------------------
(* Properties of the AI credentials.                                        *)

(* The scorer holds the key for the provider and has the provider switched  *)
(* on.                                                                      *)
Uses(scorer, provider, api_key) ==
    IF provider = "openai"
    THEN scorer.use_openai /\ scorer.openai_api_key = api_key
    ELSE scorer.use_anthropic /\ scorer.anthropic_api_key = api_key

(* C30: after any sequence of save_ai_credentials, get_ai_scorer and        *)
(* disconnect operations for a company, get_ai_scorer returns a scorer that *)
(* uses the provider and the key of the company's most recent successful    *)
(* save (the settings hold them), and returns no scorer once AI scoring has *)
(* been disconnected.                                                       *)
C30_ScorerFollowsConfiguration ==
    call.op = "get_ai_scorer" =>
        IF settings[call.company_id].configured /\ settings[call.company_id].enabled
        THEN /\ call.result.kind = "scorer"
             /\ Uses(call.result.scorer, settings[call.company_id].provider,
                     settings[call.company_id].api_key)
        ELSE call.result.kind = "none"

====
